---- MODULE Spec2Model ----
(***************************************************************************)
(* Model of the legal-research retrieval pipeline of indian-legal-ai:     *)
(* backend/services/case_law_service.py (CaseLawService).                 *)
(*                                                                         *)
(* Text is kept as TLA+ strings; TLC evaluates Len, SubSeq and \o on      *)
(* strings, so the substring tests, case folding, whitespace splitting    *)
(* and regular-expression searches of the Python code are computed        *)
(* character by character, as the code computes them.                     *)
(*                                                                         *)
(* Relevance scores are multiples of 0.5 in the code (2.0, 1.0, 1.5, 0.5);*)
(* the model stores twice the score as an integer (field relevance2).     *)
(***************************************************************************)
EXTENDS Integers, Sequences, FiniteSets, TLC

(***************************************************************************)
(* Python string primitives                                                *)
(***************************************************************************)
UpperLetters == "ABCDEFGHIJKLMNOPQRSTUVWXYZ"
LowerLetters == "abcdefghijklmnopqrstuvwxyz"
DigitChars == "0123456789"

\* s[i] (1-based), a one-character string
Char(s, i) == SubSeq(s, i, i)

IndexIn(c, s) == CHOOSE i \in 1..Len(s) : Char(s, i) = c

CharsOf(s) == {Char(s, i) : i \in 1..Len(s)}

UpperSet == CharsOf(UpperLetters)
LowerSet == CharsOf(LowerLetters)
DigitSet == CharsOf(DigitChars)

IsUpper(c) == c \in UpperSet
IsLowerLetter(c) == c \in LowerSet
IsDigit(c) == c \in DigitSet

\* str.isspace() / regex \s on the characters the model uses
IsSpace(c) == c \in {" ", "\t", "\n"}

\* regex \w: alphanumeric or underscore
IsWord(c) == IsUpper(c) \/ IsLowerLetter(c) \/ IsDigit(c) \/ c = "_"

\* str.isalnum()
IsAlnum(c) == IsUpper(c) \/ IsLowerLetter(c) \/ IsDigit(c)

\* the lower-case letter of each upper-case letter
LowerOf == [c \in UpperSet |-> Char(LowerLetters, IndexIn(c, UpperLetters))]

LowerChar(c) == IF IsUpper(c) THEN LowerOf[c] ELSE c

\* str.lower()
RECURSIVE Lower(_)
Lower(s) ==
    IF s = "" THEN "" ELSE LowerChar(Char(s, 1)) \o Lower(SubSeq(s, 2, Len(s)))

\* needle in hay (substring test); the empty string is in every string
Contains(hay, needle) ==
    \E i \in 0..(Len(hay) - Len(needle)) :
        SubSeq(hay, i + 1, i + Len(needle)) = needle

\* str.split() with no argument: split on runs of whitespace, no empty items
RECURSIVE SplitFrom(_, _, _)
SplitFrom(s, i, cur) ==
    IF i > Len(s)
    THEN (IF cur = "" THEN <<>> ELSE <<cur>>)
    ELSE IF IsSpace(Char(s, i))
         THEN (IF cur = "" THEN SplitFrom(s, i + 1, "")
                           ELSE <<cur>> \o SplitFrom(s, i + 1, ""))
         ELSE SplitFrom(s, i + 1, cur \o Char(s, i))

Split(s) == SplitFrom(s, 1, "")

\* sep.join(parts)
RECURSIVE Join(_, _)
Join(sep, parts) ==
    IF parts = <<>> THEN ""
    ELSE IF Len(parts) = 1 THEN parts[1]
    ELSE parts[1] \o sep \o Join(sep, Tail(parts))

\* str.strip(): what get_text(strip=True) does to a single text node
RECURSIVE LStrip(_)
LStrip(s) ==
    IF s # "" /\ IsSpace(Char(s, 1)) THEN LStrip(SubSeq(s, 2, Len(s))) ELSE s

RECURSIVE RStrip(_)
RStrip(s) ==
    IF s # "" /\ IsSpace(Char(s, Len(s))) THEN RStrip(SubSeq(s, 1, Len(s) - 1)) ELSE s

Strip(s) == RStrip(LStrip(s))

\* str.isdigit() on the characters the model uses
IsDigitStr(s) == s # "" /\ \A i \in 1..Len(s) : IsDigit(Char(s, i))

DigitVal(c) == IndexIn(c, DigitChars) - 1

\* int(s) for a string of decimal digits
RECURSIVE ToInt(_)
ToInt(s) ==
    IF s = "" THEN 0
    ELSE 10 * ToInt(SubSeq(s, 1, Len(s) - 1)) + DigitVal(Char(s, Len(s)))

(***************************************************************************)
(* _clean_query                                                            *)
(***************************************************************************)
\* re.sub(r'[^\w\s]', ' ', query): every character that is neither a word
\* character nor whitespace becomes one space
RECURSIVE SubSpecial(_)
SubSpecial(s) ==
    IF s = "" THEN ""
    ELSE (IF IsWord(Char(s, 1)) \/ IsSpace(Char(s, 1)) THEN Char(s, 1) ELSE " ")
         \o SubSpecial(SubSeq(s, 2, Len(s)))

\* ' '.join(clean.split())
CollapseSpaces(s) == Join(" ", Split(s))

\* the two steps in the wrong order: collapse first, substitute second
CleanQuerySwapped(query) == SubSpecial(CollapseSpaces(query))

CleanQuery(query) == CollapseSpaces(SubSpecial(query))

(***************************************************************************)
(* Python list and dict primitives                                         *)
(***************************************************************************)
MinOf(S) == CHOOSE x \in S : \A y \in S : x <= y

\* xs[:n] for n >= 0
Take(xs, n) == SubSeq(xs, 1, IF n < Len(xs) THEN n ELSE Len(xs))

\* d[k] = v on a dict: sets an existing key or adds a new one
DictSet(d, k, v) == (k :> v) @@ d

\* d.get(k, default)
DictGet(d, k, default) == IF k \in DOMAIN d THEN d[k] ELSE default

\* s[i] or "" past the ends, s[i..j] clipped to the string: how a regular
\* expression reads a subject that may end early
At(s, i) == IF 1 <= i /\ i <= Len(s) THEN SubSeq(s, i, i) ELSE ""

Sub(s, i, j) == SubSeq(s, IF i < 1 THEN 1 ELSE i, IF j > Len(s) THEN Len(s) ELSE j)

\* length of the run of decimal digits starting at s[i]
RECURSIVE DigitRun(_, _)
DigitRun(s, i) == IF IsDigit(At(s, i)) THEN 1 + DigitRun(s, i + 1) ELSE 0

\* length of the run of [a-z] starting at s[i]
RECURSIVE LowerRun(_, _)
LowerRun(s, i) ==
    IF IsLowerLetter(At(s, i)) THEN 1 + LowerRun(s, i + 1) ELSE 0

(***************************************************************************)
(* _parse_search_result: the regular-expression searches                  *)
(***************************************************************************)
\* re.search(r'/doc/(\d+)/', link) matching at position i
DocIdMatchAt(link, i) ==
    /\ Sub(link, i, i + 4) = "/doc/"
    /\ DigitRun(link, i + 5) >= 1
    /\ At(link, i + 5 + DigitRun(link, i + 5)) = "/"

\* group(1) of the match at position i: the digits
DocIdGroup(link, i, digits) == Sub(link, i + 5, i + 4 + digits)

\* the leftmost of the matching positions I decides
DocIdFrom(link, I) ==
    IF I = {} THEN "" ELSE DocIdGroup(link, MinOf(I), DigitRun(link, MinOf(I) + 5))

\* case_id_match.group(1) if case_id_match else ''
CaseIdOf(link) == DocIdFrom(link, {i \in 1..Len(link) : DocIdMatchAt(link, i)})

\* (?:High )?Court at position j of a match that began at i: its length, 0 if none
CourtTailLen(text, i, j) ==
    IF Sub(text, j, j + 9) = "High Court" THEN j + 10 - i
    ELSE IF Sub(text, j, j + 4) = "Court" THEN j + 5 - i
    ELSE 0

\* [A-Z], then the n letters of [a-z]+, then a space, then the tail
CourtLenWith(text, i, n) ==
    IF IsUpper(At(text, i)) /\ n >= 1 /\ At(text, i + 1 + n) = " "
    THEN CourtTailLen(text, i, i + 2 + n)
    ELSE 0

\* length of the match of r'([A-Z][a-z]+ (?:High )?Court)' at position i, 0 if none
CourtLenAt(text, i) == CourtLenWith(text, i, LowerRun(text, i + 1))

MatchAt(text, i, len) == Sub(text, i, i + len - 1)

CourtFrom(text, I) ==
    IF I = {} THEN "" ELSE MatchAt(text, MinOf(I), CourtLenAt(text, MinOf(I)))

\* court_match.group(1) if court_match else ''
CourtOf(text) == CourtFrom(text, {i \in 1..Len(text) : CourtLenAt(text, i) > 0})

IsDateSep(c) == c \in {"/", "-"}

\* \d{1,2}[/-] at position i, where d digits begin: the position after it, 0 if none
DatePartEnd(text, i, d) ==
    IF d \in {1, 2} /\ IsDateSep(At(text, i + d)) THEN i + d + 1 ELSE 0

\* \d{4} at position k of a match that began at i: the length of the match
DateYearLen(text, i, k) == IF k > 0 /\ DigitRun(text, k) >= 4 THEN k + 4 - i ELSE 0

\* the second \d{1,2}[/-] begins at j
DateLenFrom(text, i, j) ==
    IF j = 0 THEN 0 ELSE DateYearLen(text, i, DatePartEnd(text, j, DigitRun(text, j)))

\* length of the match of r'(\d{1,2}[/-]\d{1,2}[/-]\d{4})' at position i, 0 if none
DateLenAt(text, i) == DateLenFrom(text, i, DatePartEnd(text, i, DigitRun(text, i)))

DateFrom(text, I) ==
    IF I = {} THEN "" ELSE MatchAt(text, MinOf(I), DateLenAt(text, MinOf(I)))

\* date_match.group(1) if date_match else ''
DateOf(text) == DateFrom(text, {i \in 1..Len(text) : DateLenAt(text, i) > 0})

\* re.search(r'\((\d{4})\)', meta_text) matching at position i
YearMatchAt(text, i) ==
    /\ At(text, i) = "("
    /\ DigitRun(text, i + 1) = 4
    /\ At(text, i + 5) = ")"

\* year_match.group(1) if year_match else ''
YearFrom(text, I) == IF I = {} THEN "" ELSE Sub(text, MinOf(I) + 1, MinOf(I) + 4)

YearOf(text) == YearFrom(text, {i \in 1..Len(text) : YearMatchAt(text, i)})

(***************************************************************************)
(* Exceptions and log records                                              *)
(***************************************************************************)
\* what the awaited GET can raise (httpx.HTTPError subclasses), what a
\* fragment's element access can raise, and what iterating topics=None raises
NetworkExceptions == {"ConnectError", "ReadTimeout"}
FragmentException == "AttributeError"
TopicsException == "TypeError"

\* only the transport errors are caught
CatchesHTTPErrorOnly(exc) == exc \in NetworkExceptions

\* `except Exception`: every exception class above derives from Exception
CatchesException(exc) == exc \in NetworkExceptions \cup {FragmentException, TopicsException}

\* result of a call: the exception it raised ("" if it returned), the value it
\* returned, and the log records it wrote, in order
Returned(value, logs) == [raised |-> "", value |-> value, logs |-> logs]
Raised(exc, logs) == [raised |-> exc, value |-> <<>>, logs |-> logs]

IsFailureLog(l) == Sub(l, 1, 8) = "WARNING:" \/ Sub(l, 1, 6) = "ERROR:"

FailureLogs(logs) == SelectSeq(logs, IsFailureLog)

(***************************************************************************)
(* _parse_search_result and the loop of _search_indiankanoon               *)
(***************************************************************************)
INDIANKANOON_BASE_URL == "https://indiankanoon.org"

\* Python's None, as returned for a fragment without a title anchor
None == [none |-> TRUE]

\* A result fragment <div class="result"> is given by what the lookups on it
\* find: the a.cite_tag anchor (text, href), the div.snippets text, the
\* div.metadata text, and whether accessing it raises.
\* an extraction that falls back to the whole link when the link has no
\* numeric segment
ExtractFieldsIdFromLink(div) ==
    [id        |-> IF CaseIdOf(div.href) = "" THEN div.href ELSE CaseIdOf(div.href),
     title     |-> Strip(div.anchorText),
     summary   |-> IF div.hasSnippet THEN Strip(div.snippetText) ELSE "",
     court     |-> IF div.hasMeta THEN CourtOf(div.metaText) ELSE "",
     date      |-> IF div.hasMeta THEN DateOf(div.metaText) ELSE "",
     year      |-> IF div.hasMeta THEN YearOf(div.metaText) ELSE "",
     url       |-> INDIANKANOON_BASE_URL \o div.href,
     relevance2 |-> 0]

ExtractFields(div) ==
    [id        |-> CaseIdOf(div.href),
     title     |-> Strip(div.anchorText),
     summary   |-> IF div.hasSnippet THEN Strip(div.snippetText) ELSE "",
     court     |-> IF div.hasMeta THEN CourtOf(div.metaText) ELSE "",
     date      |-> IF div.hasMeta THEN DateOf(div.metaText) ELSE "",
     year      |-> IF div.hasMeta THEN YearOf(div.metaText) ELSE "",
     url       |-> INDIANKANOON_BASE_URL \o div.href,
     relevance2 |-> 0]

ParseSearchResult(div) ==
    IF div.raises
    THEN (IF CatchesException(FragmentException)
          THEN Returned(None, <<"ERROR: Error parsing search result">>)
          ELSE Raised(FragmentException, <<>>))
    ELSE IF ~div.hasAnchor THEN Returned(None, <<>>)
    ELSE Returned(ExtractFields(div), <<>>)

\* for div in divs: try: result = parse(div); if result: append
\*                  except Exception: warning; continue
\* one iteration (one: what _parse_search_result did on the fragment) followed
\* by the remaining iterations (rest)
ParseLoopStep(one, rest) ==
    IF one.raised # ""
    THEN (IF CatchesException(one.raised)
          THEN Returned(rest.value,
                        one.logs \o <<"WARNING: Error parsing result">> \o rest.logs)
          ELSE Raised(one.raised, one.logs))
    ELSE IF rest.raised # "" THEN Raised(rest.raised, one.logs \o rest.logs)
    ELSE Returned((IF one.value = None THEN <<>> ELSE <<one.value>>) \o rest.value,
                  one.logs \o rest.logs)

RECURSIVE ParseLoop(_)
ParseLoop(divs) ==
    IF divs = <<>> THEN Returned(<<>>, <<>>)
    ELSE ParseLoopStep(ParseSearchResult(Head(divs)), ParseLoop(Tail(divs)))

\* soup.find_all('div', class_='result')[:limit]
ResultDivs(divs, limit) == Take(divs, limit)

\* the outer handler of _search_indiankanoon
SearchHandler(exc, logs) ==
    IF CatchesException(exc)
    THEN Returned(<<>>, logs \o <<"ERROR: Error searching Indian Kanoon">>)
    ELSE Raised(exc, logs)

\* an exception that left the loop reaches the outer handler
AfterLoop(loop) == IF loop.raised # "" THEN SearchHandler(loop.raised, loop.logs) ELSE loop

\* a search that returns [] on a non-success status without logging it
SearchIndiankanoonSilent(resp, limit) ==
    IF resp.kind = "raise" THEN SearchHandler(resp.exc, <<>>)
    ELSE IF resp.status # 200 THEN Returned(<<>>, <<>>)
    ELSE AfterLoop(ParseLoop(ResultDivs(resp.divs, limit)))

\* _search_indiankanoon from the point where the awaited GET completes
SearchIndiankanoon(resp, limit) ==
    IF resp.kind = "raise" THEN SearchHandler(resp.exc, <<>>)
    ELSE IF resp.status # 200
    THEN Returned(<<>>, <<"WARNING: Indian Kanoon search failed">>)
    ELSE AfterLoop(ParseLoop(ResultDivs(resp.divs, limit)))

(***************************************************************************)
(* get_case_details: the extractors of the detail page                     *)
(***************************************************************************)
\* A detail page is the sequence of its elements in document order, each with
\* the tag it is found by ("h1", "div.judgments", or "p" for any other) and
\* its text; the empty sequence is a page without content.
HasTag(page, tag) == \E i \in DOMAIN page : page[i].tag = tag

\* soup.find(tag): the first such element
FindTag(page, tag) == page[MinOf({i \in DOMAIN page : page[i].tag = tag})]

\* soup.get_text(): the text of all elements, concatenated
RECURSIVE PageText(_)
PageText(page) == IF page = <<>> THEN "" ELSE Head(page).text \o PageText(Tail(page))

\* the strings get_text(strip=True) yields: stripped, the empty ones left out
RECURSIVE StrippedTexts(_)
StrippedTexts(page) ==
    IF page = <<>> THEN <<>>
    ELSE (IF Strip(Head(page).text) = "" THEN <<>> ELSE <<Strip(Head(page).text)>>)
         \o StrippedTexts(Tail(page))

\* _extract_title
ExtractTitle(page) == IF HasTag(page, "h1") THEN Strip(FindTag(page, "h1").text) ELSE ""

\* r'(Supreme Court|High Court|District Court)' matching at position i: the match
DetailCourtAt(text, i) ==
    IF Sub(text, i, i + 12) = "Supreme Court" THEN "Supreme Court"
    ELSE IF Sub(text, i, i + 9) = "High Court" THEN "High Court"
    ELSE IF Sub(text, i, i + 13) = "District Court" THEN "District Court"
    ELSE ""

DetailCourtFrom(text, I) == IF I = {} THEN "" ELSE DetailCourtAt(text, MinOf(I))

\* _extract_court
ExtractCourt(text) ==
    DetailCourtFrom(text, {i \in 1..Len(text) : DetailCourtAt(text, i) # ""})

\* _extract_date
ExtractDate(text) == DateOf(text)

\* length of the run of whitespace starting at s[i]
RECURSIVE SpaceRun(_, _)
SpaceRun(s, i) == IF IsSpace(At(s, i)) THEN 1 + SpaceRun(s, i + 1) ELSE 0

\* length of the run of [A-Z] starting at s[i]
RECURSIVE UpperRun(_, _)
UpperRun(s, i) == IF IsUpper(At(s, i)) THEN 1 + UpperRun(s, i + 1) ELSE 0

MaxOf(S) == CHOOSE x \in S : \A y \in S : x >= y

\* BEFORE at position i, ignoring case
BeforeAt(text, i) == Lower(Sub(text, i, i + 5)) = "before"

\* (?:\n\n|JUDGMENT) at position k, ignoring case
JudgesEndAt(text, k) ==
    Sub(text, k, k + 1) = "\n\n" \/ Lower(Sub(text, k, k + 7)) = "judgment"

NoNewline(text, g, e) == \A k \in g..e : At(text, k) # "\n"

\* (.+?) beginning at g: the positions where the group can end
JudgesGroupEnds(text, g) ==
    {e \in g..Len(text) : NoNewline(text, g, e) /\ JudgesEndAt(text, e + 1)}

\* :?\s* after BEFORE, which ends before position p: the positions where
\* the group can begin (with the colon taken, or not)
JudgesGroupStartsWith(text, p, colon) ==
    {g \in (p + colon)..(p + colon + SpaceRun(text, p + colon)) :
        JudgesGroupEnds(text, g) # {}}
    \cup (IF colon = 1 /\ JudgesGroupEnds(text, p) # {} THEN {p} ELSE {})

JudgesGroupStarts(text, p) ==
    JudgesGroupStartsWith(text, p, IF At(text, p) = ":" THEN 1 ELSE 0)

\* the greedy :?\s* gives the group its latest start, the lazy .+? its
\* earliest end
JudgesGroupFrom(text, g) == Sub(text, g, MinOf(JudgesGroupEnds(text, g)))

JudgesGroupAt(text, i) == JudgesGroupFrom(text, MaxOf(JudgesGroupStarts(text, i + 6)))

JudgesMatchAt(text, i) == BeforeAt(text, i) /\ JudgesGroupStarts(text, i + 6) # {}

\* str.split(sep) for a one-character sep: the empty items are kept
RECURSIVE SplitOnFrom(_, _, _, _)
SplitOnFrom(s, sep, i, cur) ==
    IF i > Len(s) THEN <<cur>>
    ELSE IF Char(s, i) = sep THEN <<cur>> \o SplitOnFrom(s, sep, i + 1, "")
    ELSE SplitOnFrom(s, sep, i + 1, cur \o Char(s, i))

SplitOn(s, sep) == SplitOnFrom(s, sep, 1, "")

\* [j.strip() for j in judges_text.split(',')]
StripEach(parts) == [i \in DOMAIN parts |-> Strip(parts[i])]

JudgesFrom(text, I) ==
    IF I = {} THEN <<>> ELSE StripEach(SplitOn(JudgesGroupAt(text, MinOf(I)), ","))

\* _extract_judges
ExtractJudges(text) == JudgesFrom(text, {i \in 1..Len(text) : JudgesMatchAt(text, i)})

\* _extract_full_text
ExtractFullText(page) ==
    IF HasTag(page, "div.judgments")
    THEN Strip(FindTag(page, "div.judgments").text)
    ELSE Join("\n", StrippedTexts(page))

\* \s+ then one or more of a class whose run at k is n long: the position
\* after them, 0 if either is missing
AfterSpacesAndRun(text, k, sp, n) == IF k > 0 /\ sp >= 1 /\ n >= 1 THEN k + sp + n ELSE 0

AfterSpacesDigits(text, k) ==
    AfterSpacesAndRun(text, k, SpaceRun(text, k), DigitRun(text, k + SpaceRun(text, k)))

AfterSpacesUppers(text, k) ==
    AfterSpacesAndRun(text, k, SpaceRun(text, k), UpperRun(text, k + SpaceRun(text, k)))

\* r'\[(\d{4})\]\s+\d+\s+[A-Z]+\s+\d+' matching at position i
CitationAt(text, i) ==
    /\ At(text, i) = "[" /\ DigitRun(text, i + 1) = 4 /\ At(text, i + 5) = "]"
    /\ AfterSpacesDigits(text, AfterSpacesUppers(text, AfterSpacesDigits(text, i + 6))) > 0

\* set(re.findall(citation_pattern, text)): the years of the citations
CitationYears(text) == {Sub(text, i + 1, i + 4) : i \in {k \in 1..Len(text) : CitationAt(text, k)}}

\* list(a set): its elements once each, in an order the set decides
Orderings(S) ==
    {q \in [1..Cardinality(S) -> S] : \A x \in S : \E i \in DOMAIN q : q[i] = x}

\* the details dict of get_case_details, lines 121-130
CaseDetails(case_id, page, citations, url) ==
    [id        |-> case_id,
     title     |-> ExtractTitle(page),
     court     |-> ExtractCourt(PageText(page)),
     date      |-> ExtractDate(PageText(page)),
     judges    |-> ExtractJudges(PageText(page)),
     full_text |-> ExtractFullText(page),
     citations |-> citations,
     url       |-> url]

\* f"{self.indiankanoon_base}/doc/{case_id}/"
DetailUrl(case_id) == INDIANKANOON_BASE_URL \o "/doc/" \o case_id \o "/"

(***************************************************************************)
(* _enhance_with_topics, _rank_by_relevance                                *)
(***************************************************************************)
\* f"{result['title']} {result['summary']}".lower()
CombinedText(result) == Lower(result.title \o " " \o result.summary)

\* a count that compares the topic as given, without lower-casing it
TopicMatchesCaseSensitive(combined_text, topics) ==
    Cardinality({i \in DOMAIN topics : Contains(combined_text, topics[i])})

\* the inner for of _enhance_with_topics over combined_text
TopicMatchesIn(combined_text, topics) ==
    Cardinality({i \in DOMAIN topics : Contains(combined_text, Lower(topics[i]))})

TopicMatches(result, topics) == TopicMatchesIn(CombinedText(result), topics)

\* an enhancement that stores the lower-cased title back into the result
EnhanceLoweringTitle(results, topics, topicsIsNone) ==
    IF topicsIsNone /\ results # <<>> THEN Raised(TopicsException, <<>>)
    ELSE Returned([i \in DOMAIN results |->
                      DictSet(DictSet(results[i], "title", Lower(results[i].title)),
                              "topic_matches", TopicMatches(results[i], topics))],
                  <<>>)

\* topicsIsNone: the caller passed None for topics, so the inner for raises on
\* the first result
EnhanceWithTopics(results, topics, topicsIsNone) ==
    IF topicsIsNone /\ results # <<>> THEN Raised(TopicsException, <<>>)
    ELSE Returned([i \in DOMAIN results |->
                      DictSet(results[i], "topic_matches", TopicMatches(results[i], topics))],
                  <<>>)

\* set(query.lower().split())
Elements(xs) == {xs[i] : i \in DOMAIN xs}

QueryTerms(query) == Elements(Split(Lower(query)))

\* sum(1 for term in query_terms if term in combined_text)
TermMatchesIn(combined_text, query_terms) ==
    Cardinality({t \in query_terms : Contains(combined_text, t)})

TermMatches(result, query) == TermMatchesIn(CombinedText(result), QueryTerms(query))

\* the first boundary tested with > instead of >=
RecencyOfIntStrict2(year_int) == IF year_int > 2020 THEN 2 ELSE IF year_int >= 2015 THEN 1 ELSE 0

\* twice the bonus for year_int
RecencyOfInt2(year_int) == IF year_int >= 2020 THEN 2 ELSE IF year_int >= 2015 THEN 1 ELSE 0

RecencyBonus2(year) ==
    IF year # "" /\ IsDigitStr(year) THEN RecencyOfInt2(ToInt(year)) ELSE 0

\* a score without the bonus for Supreme Court cases
Relevance2NoCourtBonus(result, query) ==
      4 * DictGet(result, "topic_matches", 0)
    + 2 * TermMatches(result, query)
    + RecencyBonus2(DictGet(result, "year", ""))

\* twice the score of lines 266-287
Relevance2(result, query) ==
      4 * DictGet(result, "topic_matches", 0)
    + 2 * TermMatches(result, query)
    + (IF Contains(DictGet(result, "court", ""), "Supreme Court") THEN 3 ELSE 0)
    + RecencyBonus2(DictGet(result, "year", ""))

\* a loop that adds the score to the relevance the result already holds
ScoreAllAccumulating(results, query) ==
    [i \in DOMAIN results |->
        DictSet(results[i], "relevance2",
                DictGet(results[i], "relevance2", 0) + Relevance2(results[i], query))]

\* the for loop of _rank_by_relevance: result['relevance'] = score, in place
ScoreAll(results, query) ==
    [i \in DOMAIN results |-> DictSet(results[i], "relevance2", Relevance2(results[i], query))]

\* an insertion that puts x before the elements of equal key
RECURSIVE InsertBeforeEqual(_, _)
InsertBeforeEqual(sorted, x) ==
    IF sorted = <<>> THEN <<x>>
    ELSE IF Head(sorted).relevance2 > x.relevance2
         THEN <<Head(sorted)>> \o InsertBeforeEqual(Tail(sorted), x)
         ELSE <<x>> \o sorted

\* x placed after every element whose key is >= its own
RECURSIVE InsertStable(_, _)
InsertStable(sorted, x) ==
    IF sorted = <<>> THEN <<x>>
    ELSE IF Head(sorted).relevance2 >= x.relevance2
         THEN <<Head(sorted)>> \o InsertStable(Tail(sorted), x)
         ELSE <<x>> \o sorted

\* sorted(results, key=lambda x: x['relevance'], reverse=True): descending,
\* elements of equal key in their original order
RECURSIVE SortedByRelevance(_)
SortedByRelevance(xs) ==
    IF xs = <<>> THEN <<>>
    ELSE InsertStable(SortedByRelevance(SubSeq(xs, 1, Len(xs) - 1)), xs[Len(xs)])

RankByRelevance(results, query) == SortedByRelevance(ScoreAll(results, query))

(***************************************************************************)
(* _construct_similarity_query, _extract_outcome                           *)
(***************************************************************************)
ConstructSimilarityQuery(case_facts, legal_issues) ==
    Join(" ", Take(legal_issues, 3) \o Take(Split(case_facts), 20))

ContainsAny(text, words) == \E w \in words : Contains(text, w)

\* the keyword tests with the Plaintiff keywords tried first
OutcomePlaintiffFirst(summary) ==
    IF ContainsAny(summary, {"allowed", "granted", "favor of plaintiff"}) THEN "Plaintiff"
    ELSE IF ContainsAny(summary, {"dismissed", "rejected", "no merit"}) THEN "Defendant"
    ELSE IF ContainsAny(summary, {"settled", "compromise"}) THEN "Settled"
    ELSE "Unknown"

\* the keyword tests on summary = case.get('summary', '').lower()
OutcomeOfSummary(summary) ==
    IF ContainsAny(summary, {"dismissed", "rejected", "no merit"}) THEN "Defendant"
    ELSE IF ContainsAny(summary, {"allowed", "granted", "favor of plaintiff"}) THEN "Plaintiff"
    ELSE IF ContainsAny(summary, {"settled", "compromise"}) THEN "Settled"
    ELSE "Unknown"

ExtractOutcome(case) == OutcomeOfSummary(Lower(DictGet(case, "summary", "")))

\* a loop that inserts each case at the front instead of appending it
WithOutcomesPrepended(results) ==
    [i \in DOMAIN results |->
        DictSet(results[Len(results) + 1 - i], "outcome",
                ExtractOutcome(results[Len(results) + 1 - i]))]

\* the loop of find_similar_cases: case['outcome'] = outcome, append
WithOutcomes(results) ==
    [i \in DOMAIN results |-> DictSet(results[i], "outcome", ExtractOutcome(results[i]))]

(***************************************************************************)
(* legal_ai_service.py: _build_context                                     *)
(***************************************************************************)
\* bare_acts[:3], case_laws[:3], vector_docs[:2], page_content[:200]
TopActs == 3
TopCases == 3
TopDocs == 2
SnippetChars == 200

\* f"- {act['act_name']}, Section {act['section']}: {act['text']}"
BareActLine(act) == "- " \o act.act_name \o ", Section " \o act.section \o ": " \o act.text

\* f"- {case['title']} ({case['year']}): {case['summary']}"
CaseLawLine(case) == "- " \o case.title \o " (" \o case.year \o "): " \o case.summary

\* f"- {doc.page_content[:200]}..."
DocLine(doc) == "- " \o Take(doc.page_content, SnippetChars) \o "..."

BareActLines(acts) == [i \in DOMAIN acts |-> BareActLine(acts[i])]
CaseLawLines(cases) == [i \in DOMAIN cases |-> CaseLawLine(cases[i])]
DocLines(docs) == [i \in DOMAIN docs |-> DocLine(docs[i])]

\* the three lists without any cap
ContextPartsUncapped(bare_acts, case_laws, vector_docs) ==
    (IF bare_acts # <<>>
     THEN <<"Relevant Bare Act Sections:">> \o BareActLines(bare_acts) ELSE <<>>)
    \o (IF case_laws # <<>>
        THEN <<"\nRelevant Case Laws:">> \o CaseLawLines(case_laws) ELSE <<>>)
    \o (IF vector_docs # <<>>
        THEN <<"\nAdditional Context:">> \o DocLines(vector_docs) ELSE <<>>)

\* headings that do not begin with a line break
ContextPartsNoBlankLine(bare_acts, case_laws, vector_docs) ==
    (IF bare_acts # <<>>
     THEN <<"Relevant Bare Act Sections:">> \o BareActLines(Take(bare_acts, TopActs))
     ELSE <<>>)
    \o (IF case_laws # <<>>
        THEN <<"Relevant Case Laws:">> \o CaseLawLines(Take(case_laws, TopCases))
        ELSE <<>>)
    \o (IF vector_docs # <<>>
        THEN <<"Additional Context:">> \o DocLines(Take(vector_docs, TopDocs))
        ELSE <<>>)

\* context_parts at line 410
ContextParts(bare_acts, case_laws, vector_docs) ==
    (IF bare_acts # <<>>
     THEN <<"Relevant Bare Act Sections:">> \o BareActLines(Take(bare_acts, TopActs))
     ELSE <<>>)
    \o (IF case_laws # <<>>
        THEN <<"\nRelevant Case Laws:">> \o CaseLawLines(Take(case_laws, TopCases))
        ELSE <<>>)
    \o (IF vector_docs # <<>>
        THEN <<"\nAdditional Context:">> \o DocLines(Take(vector_docs, TopDocs))
        ELSE <<>>)

\* _build_context
BuildContext(bare_acts, case_laws, vector_docs) ==
    Join("\n", ContextParts(bare_acts, case_laws, vector_docs))

(***************************************************************************)
(* legal_ai_service.py: analyze_document and its helpers                   *)
(***************************************************************************)
\* the templates of _get_analysis_prompt, each as the text before and after
\* {document}
ContractTemplate ==
    [pre |-> "Analyze this contract thoroughly:\n\n",
     post |-> "\n\nProvide:\n1. Summary of key terms\n2. Rights and obligations of each party\n3. Potential risks or ambiguities\n4. Missing clauses or provisions\n5. Compliance with Indian Contract Act\n6. Recommendations for improvement\n\nAnalysis:"]
FirTemplate ==
    [pre |-> "Analyze this FIR:\n\n",
     post |-> "\n\nProvide:\n1. Alleged offenses and applicable sections\n2. Strength of the complaint\n3. Evidence mentioned\n4. Procedural compliance\n5. Possible defenses\n6. Next steps\n\nAnalysis:"]
NoticeTemplate ==
    [pre |-> "Analyze this legal notice:\n\n",
     post |-> "\n\nProvide:\n1. Nature of dispute\n2. Legal claims made\n3. Demands and deadlines\n4. Strength of claims\n5. Recommended response\n6. Potential outcomes\n\nAnalysis:"]
DefaultTemplate == [pre |-> "Analyze this legal document:\n\n", post |-> "\n\nAnalysis:"]

\* _get_analysis_prompt: templates.get(document_type, default)
GetAnalysisPrompt(document_type) ==
    IF document_type = "contract" THEN ContractTemplate
    ELSE IF document_type = "fir" THEN FirTemplate
    ELSE IF document_type = "notice" THEN NoticeTemplate
    ELSE DefaultTemplate

\* analysis_prompt.format(document=chunk)
FormatPrompt(template, document) == template.pre \o document \o template.post

\* a loop that hands the analyzer all the chunks up to the current one
ChunkPromptCarrying(template, chunks, i) ==
    FormatPrompt(template, Join("\n\n", SubSeq(chunks, 1, i)))

\* the prompt of the i-th iteration of the loop, lines 197-201
ChunkPrompt(template, chunks, i) == FormatPrompt(template, chunks[i])

\* str(n) for n >= 0
RECURSIVE IntStr(_)
IntStr(n) ==
    IF n < 10 THEN Char(DigitChars, n + 1)
    ELSE IntStr(n \div 10) \o Char(DigitChars, (n % 10) + 1)

\* logger.info(f"Analyzing chunk {i+1}/{len(chunks)}")
ChunkLog(i, n) == "INFO: Analyzing chunk " \o IntStr(i) \o "/" \o IntStr(n)

\* _combine_analyses
CombineAnalyses(analyses) == Join("\n\n", analyses)

\* the prompt of _extract_key_points
KeyPointsPrompt(analysis) ==
    "Extract 5-7 key points from this analysis as bullet points:\n\n" \o analysis
    \o "\n\nKey Points:"

\* [p.strip() for p in s.split('\n') if p.strip()]
StrippedLines(s) == SelectSeq(StripEach(SplitOn(s, "\n")), LAMBDA p : p # "")

\* document_text[:2000]
RiskChars == 2000

\* the prompt of _identify_risks
RiskPrompt(document_text, document_type) ==
    "Identify legal risks in this " \o document_type \o ":\n\n"
    \o Take(document_text, RiskChars)
    \o "\n\nFor each risk, provide:\n- Description\n- Severity (Low/Medium/High)\n- Legal basis\n- Mitigation suggestion\n\nRisks:"

\* the list _identify_risks returns
RisksOf(risks_str) == <<[description |-> risks_str, severity |-> "Medium"]>>

\* repr() of a character inside a string literal quoted with q
ReprChar(c, q) ==
    IF c = "\\" THEN "\\\\"
    ELSE IF c = "\n" THEN "\\n"
    ELSE IF c = "\t" THEN "\\t"
    ELSE IF c = q THEN "\\" \o q
    ELSE c

RECURSIVE ReprCharsFrom(_, _, _)
ReprCharsFrom(s, i, q) ==
    IF i > Len(s) THEN "" ELSE ReprChar(Char(s, i), q) \o ReprCharsFrom(s, i + 1, q)

ReprChars(s, q) == ReprCharsFrom(s, 1, q)

ReprQuoted(s, q) == q \o ReprChars(s, q) \o q

\* repr() of a str: single quotes, unless it has a single and no double quote
ReprStr(s) ==
    IF Contains(s, "'") /\ ~Contains(s, "\"") THEN ReprQuoted(s, "\"") ELSE ReprQuoted(s, "'")

\* repr() of one risk dict, and of the list of them (the {risks} of the f-string)
ReprRisk(risk) ==
    "{'description': " \o ReprStr(risk.description)
    \o ", 'severity': " \o ReprStr(risk.severity) \o "}"

ReprRisks(risks) == "[" \o Join(", ", [i \in DOMAIN risks |-> ReprRisk(risks[i])]) \o "]"

\* the prompt of _suggest_improvements
SuggestionsPrompt(document_type, risks) ==
    "Based on these risks, suggest improvements for this " \o document_type
    \o ":\n\nIdentified Risks:\n" \o ReprRisks(risks) \o "\n\nSuggestions:"

\* the dict analyze_document returns, lines 220-230
AnalysisResult(combined, key_points, risks, suggestions, document_type, chunks, document_text) ==
    [analysis |-> combined, key_points |-> key_points, risks |-> risks,
     suggestions |-> suggestions, document_type |-> document_type,
     metadata |-> [chunks_analyzed |-> Len(chunks), total_length |-> Len(document_text)]]

(***************************************************************************)
(* Bounds and input domains                                                *)
(***************************************************************************)
\* longest result page (number of div.result fragments) the upstream returns
MaxDivs == 3
\* largest limit argument
MaxLimit == 3
\* longest raw query given to _clean_query on its own
MaxQueryLen == 3
\* most text segments a summary given to _extract_outcome on its own is made of
MaxSegments == 3
\* longest list of statute sections and of case laws given to _build_context
MaxItems == 4
\* longest list of vector documents given to _build_context
MaxDocs == 3
\* most chunks the text splitter returns for a document
MaxChunks == 3

FragSupreme ==
    [hasAnchor |-> TRUE, anchorText |-> " Ram v State ", href |-> "/doc/123/",
     hasSnippet |-> TRUE, snippetText |-> "Cheque bounce appeal dismissed ",
     hasMeta |-> TRUE, metaText |-> "Supreme Court of India on 12/03/2020 (2020)",
     raises |-> FALSE]
FragHigh ==
    [hasAnchor |-> TRUE, anchorText |-> "Section 138 NI Act", href |-> "/doc/45/",
     hasSnippet |-> FALSE, snippetText |-> "",
     hasMeta |-> TRUE, metaText |-> "Delhi High Court (2015)",
     raises |-> FALSE]
FragOld ==
    [hasAnchor |-> TRUE, anchorText |-> "Property dispute", href |-> "/docfragment/9/",
     hasSnippet |-> TRUE, snippetText |-> "suit allowed, parties settled",
     hasMeta |-> TRUE, metaText |-> "decided 1-2-2014 (2014)",
     raises |-> FALSE]
FragBare ==
    [hasAnchor |-> TRUE, anchorText |-> "Land matter", href |-> "",
     hasSnippet |-> FALSE, snippetText |-> "",
     hasMeta |-> FALSE, metaText |-> "",
     raises |-> FALSE]
FragNoAnchor ==
    [hasAnchor |-> FALSE, anchorText |-> "", href |-> "",
     hasSnippet |-> TRUE, snippetText |-> "cheque bounce",
     hasMeta |-> TRUE, metaText |-> "Supreme Court (2023)",
     raises |-> FALSE]
FragRaises ==
    [hasAnchor |-> TRUE, anchorText |-> "Broken", href |-> "/doc/7/",
     hasSnippet |-> FALSE, snippetText |-> "",
     hasMeta |-> FALSE, metaText |-> "",
     raises |-> TRUE]

Fragments == {FragSupreme, FragHigh, FragOld, FragBare, FragNoAnchor, FragRaises}

RECURSIVE SeqsUpTo(_, _)
SeqsUpTo(S, n) ==
    IF n = 0 THEN {<<>>}
    ELSE {<<>>} \cup {<<x>> \o q : x \in S, q \in SeqsUpTo(S, n - 1)}

Pages == SeqsUpTo(Fragments, MaxDivs)

\* arguments of search_cases: query, topics (or None)
SearchInputs ==
    {[query |-> "section 138 cheque bounce", topics |-> <<"Cheque Bounce">>, topicsIsNone |-> FALSE],
     [query |-> "Land  LAND dispute?", topics |-> <<>>, topicsIsNone |-> FALSE],
     [query |-> "Section-138: NI_Act", topics |-> <<"ni act", "", "bail">>, topicsIsNone |-> FALSE],
     [query |-> "ram", topics |-> <<"State Cheque", "Ram", "Ram">>, topicsIsNone |-> FALSE],
     [query |-> "cheque", topics |-> <<>>, topicsIsNone |-> TRUE]}

\* arguments of find_similar_cases: case_facts, legal_issues, jurisdiction
SimilarInputs ==
    {[case_facts |-> "cheque  returned unpaid", legal_issues |-> <<"Section 138">>,
      jurisdiction |-> "delhi"],
     [case_facts |-> "", legal_issues |-> <<"a", "b", "c", "d">>, jurisdiction |-> ""]}

HttpStatuses == {200, 404, 500}

\* detail pages: without content, with whitespace only, a full judgment page,
\* and a page without heading and without judgment container
PageEmpty == <<>>
PageBlank == <<[tag |-> "p", text |-> " \n "]>>
PageFull ==
    <<[tag |-> "h1", text |-> " Ram v State "],
      [tag |-> "p",
       text |-> "Supreme Court of India\nBEFORE: A. Kumar, B. Singh\n\nDate 12/03/2020 cites [2020] 5 SCC 123 and [2019]  2 SC 7"],
      [tag |-> "div.judgments", text |-> " JUDGMENT\nThe appeal is dismissed. "]>>
PagePlain ==
    <<[tag |-> "p",
       text |-> "in the High Court before:  \n\njudgment [2020] 1 SCC 5 then [2020] 3 scc 9"],
      [tag |-> "p", text |-> " District Court "]>>

DetailPages == {PageEmpty, PageBlank, PageFull, PagePlain}

\* arguments of get_case_details
CaseIds == {"123", ""}

(***************************************************************************)
(* State                                                                   *)
(***************************************************************************)
VARIABLES
    pc,         \* per request: where the coroutine stands
    call,       \* per request: the operation and its arguments
    gets,       \* per request: the GETs it issued on self.client, in order
    resp,       \* per request: how the awaited GET ended
    extracted,  \* per request: the records as _search_indiankanoon returned them
    results,    \* per request: the result list (its dicts are updated in place)
    ranked,     \* per request: the list sorted() built
    ret,        \* per request: the value returned to the caller
    outcome,    \* per request: "pending", "returned" or "raised"
    logs,       \* per request: the log records written, in order
    detail,     \* per request: what get_case_details returned (None or the details)
    cq,         \* _clean_query applied on its own: input, first and second result
    oc,         \* _extract_outcome applied on its own: the case and the outcome
    pr,         \* _parse_search_result applied on its own: the fragment and the result
    bc,         \* _build_context applied on its own: the three lists and the context
    an,         \* one call of analyze_document: its arguments, locals, LLM calls, result
    proc,       \* the process: its phase and the HTTP clients created in it
    gr,         \* one call of generate_response: its arguments, locals, result
    rk,         \* _rank_by_relevance applied on its own, once and once more
    ch          \* the chat endpoints: the database and the request being served

searchVars == <<pc, call, gets, resp, extracted, results, ranked, ret, outcome, logs, detail>>
\* the variables of the functions applied on their own
harnessVars == <<cq, oc, pr, bc, an, proc, gr, rk, ch>>
vars == <<searchVars, harnessVars>>

Reqs == {"r1", "r2"}

NoCall == [op |-> "none"]
NoResp == [kind |-> "none"]
CqIdle == [pc |-> "off", input |-> "", once |-> "", twice |-> ""]
OcIdle == [pc |-> "off", hasSummary |-> FALSE, summary |-> "", outcome |-> ""]
PrIdle == [pc |-> "off"]
BcIdle == [pc |-> "off"]
AnIdle == [pc |-> "off"]
ProcIdle == [phase |-> "off", clients |-> <<>>]
GrIdle == [pc |-> "off"]
RkIdle == [pc |-> "off"]

\* every function applied on its own is idle, but the one named
HarnessIdleBut(v) ==
    /\ IF v = "cq" THEN TRUE ELSE cq = CqIdle
    /\ IF v = "oc" THEN TRUE ELSE oc = OcIdle
    /\ IF v = "pr" THEN TRUE ELSE pr = PrIdle
    /\ IF v = "bc" THEN TRUE ELSE bc = BcIdle
    /\ IF v = "an" THEN TRUE ELSE an = AnIdle
    /\ IF v = "proc" THEN TRUE ELSE proc = ProcIdle
    /\ IF v = "gr" THEN TRUE ELSE gr = GrIdle
    /\ IF v = "rk" THEN TRUE ELSE rk = RkIdle
    /\ IF v = "ch" THEN TRUE ELSE ch = [pc |-> "off"]

HarnessUnchangedBut(v) ==
    /\ IF v = "cq" THEN TRUE ELSE UNCHANGED cq
    /\ IF v = "oc" THEN TRUE ELSE UNCHANGED oc
    /\ IF v = "pr" THEN TRUE ELSE UNCHANGED pr
    /\ IF v = "bc" THEN TRUE ELSE UNCHANGED bc
    /\ IF v = "an" THEN TRUE ELSE UNCHANGED an
    /\ IF v = "proc" THEN TRUE ELSE UNCHANGED proc
    /\ IF v = "gr" THEN TRUE ELSE UNCHANGED gr
    /\ IF v = "rk" THEN TRUE ELSE UNCHANGED rk
    /\ IF v = "ch" THEN TRUE ELSE UNCHANGED ch

InitRequests(active) ==
    /\ pc = [r \in Reqs |-> IF r \in active THEN "idle" ELSE "off"]
    /\ call = [r \in Reqs |-> NoCall]
    /\ gets = [r \in Reqs |-> <<>>]
    /\ resp = [r \in Reqs |-> NoResp]
    /\ extracted = [r \in Reqs |-> <<>>]
    /\ results = [r \in Reqs |-> <<>>]
    /\ ranked = [r \in Reqs |-> <<>>]
    /\ ret = [r \in Reqs |-> <<>>]
    /\ outcome = [r \in Reqs |-> "pending"]
    /\ logs = [r \in Reqs |-> <<>>]
    /\ detail = [r \in Reqs |-> None]

(***************************************************************************)
(* search_cases and find_similar_cases                                     *)
(***************************************************************************)
\* params that carry the jurisdiction key whatever was passed
GetParamsAlwaysJurisdiction(query, jurisdiction) ==
    [formInput |-> CleanQuery(query), pagenum |-> 0, jurisdictions |-> jurisdiction]

\* params of the GET built at lines 151-157
GetParams(query, jurisdiction) ==
    IF jurisdiction # ""
    THEN [formInput |-> CleanQuery(query), pagenum |-> 0, jurisdictions |-> jurisdiction]
    ELSE [formInput |-> CleanQuery(query), pagenum |-> 0]

\* search_cases up to the await of client.get
CallSearchCases(r) ==
    /\ pc[r] = "idle"
    /\ \E in \in SearchInputs, limit \in 0..MaxLimit :
          /\ call' = [call EXCEPT ![r] =
                        [op |-> "search_cases", query |-> in.query, topics |-> in.topics,
                         topicsIsNone |-> in.topicsIsNone, limit |-> limit]]
          /\ gets' = [gets EXCEPT ![r] = Append(@, GetParams(in.query, ""))]
    /\ logs' = [logs EXCEPT ![r] = Append(@, "INFO: Searching case laws for")]
    /\ pc' = [pc EXCEPT ![r] = "await"]
    /\ UNCHANGED <<resp, extracted, results, ranked, ret, outcome, detail, harnessVars>>

\* find_similar_cases up to the await of client.get
CallFindSimilarCases(r) ==
    /\ pc[r] = "idle"
    /\ \E in \in SimilarInputs, limit \in 0..MaxLimit :
          /\ call' = [call EXCEPT ![r] =
                        [op |-> "find_similar_cases",
                         query |-> ConstructSimilarityQuery(in.case_facts, in.legal_issues),
                         jurisdiction |-> in.jurisdiction, limit |-> limit]]
          /\ gets' = [gets EXCEPT ![r] = Append(@, GetParams(call'[r].query, in.jurisdiction))]
    /\ logs' = [logs EXCEPT ![r] = Append(@, "INFO: Finding similar cases...")]
    /\ pc' = [pc EXCEPT ![r] = "await"]
    /\ UNCHANGED <<resp, extracted, results, ranked, ret, outcome, detail, harnessVars>>

\* message of the except clause of the public method that is running
OuterMessage(op) ==
    IF op = "search_cases" THEN "ERROR: Error searching case laws"
    ELSE "ERROR: Error finding similar cases"

\* the except clause of search_cases / find_similar_cases for exception exc:
\* log and return [], or (if the clause does not catch exc) raise to the caller
OuterHandler(r, exc, written) ==
    /\ pc' = [pc EXCEPT ![r] = "done"]
    /\ IF CatchesException(exc)
       THEN /\ ret' = [ret EXCEPT ![r] = <<>>]
            /\ outcome' = [outcome EXCEPT ![r] = "returned"]
            /\ logs' = [logs EXCEPT ![r] = @ \o written \o <<OuterMessage(call[r].op)>>]
       ELSE /\ ret' = ret
            /\ outcome' = [outcome EXCEPT ![r] = "raised"]
            /\ logs' = [logs EXCEPT ![r] = @ \o written]

\* the caller of _search_indiankanoon continues with what it returned or raised
ResumeWith(r, answer, out) ==
    /\ resp' = [resp EXCEPT ![r] = answer]
    /\ IF out.raised # ""
       THEN /\ OuterHandler(r, out.raised, out.logs)
            /\ UNCHANGED <<extracted, results>>
       ELSE /\ extracted' = [extracted EXCEPT ![r] = out.value]
            /\ results' = [results EXCEPT ![r] = out.value]
            /\ logs' = [logs EXCEPT ![r] = @ \o out.logs]
            /\ pc' = [pc EXCEPT ![r] =
                        IF call[r].op = "search_cases" THEN "enhance" ELSE "outcomes"]
            /\ UNCHANGED <<ret, outcome>>
    /\ UNCHANGED <<call, gets, ranked, detail, harnessVars>>

\* a _search_indiankanoon that collects into a list kept on the service
\* instance, which holds what the other request has collected
ResumeIntoSharedList(r, answer) ==
    ResumeWith(r, answer,
               [SearchIndiankanoon(answer, call[r].limit)
                  EXCEPT !.value = results[CHOOSE q \in Reqs : q # r] \o @])

\* the rest of _search_indiankanoon once the GET has ended as answer
Resume(r, answer) == ResumeWith(r, answer, SearchIndiankanoon(answer, call[r].limit))

\* the awaited GET raises a transport error
GetRaises(r) ==
    /\ pc[r] = "await"
    /\ \E exc \in NetworkExceptions : Resume(r, [kind |-> "raise", exc |-> exc])

\* the awaited GET returns a response with a non-success status
GetFails(r) ==
    /\ pc[r] = "await"
    /\ \E status \in HttpStatuses \ {200} :
          Resume(r, [kind |-> "response", status |-> status, divs |-> <<>>])

\* the awaited GET returns a result page
GetSucceeds(r) ==
    /\ pc[r] = "await"
    /\ \E divs \in Pages :
          Resume(r, [kind |-> "response", status |-> 200, divs |-> divs])

\* search_cases continues with what _enhance_with_topics returned or raised
EnhanceWith(r, out) ==
    IF out.raised # ""
    THEN /\ OuterHandler(r, out.raised, out.logs)
         /\ UNCHANGED results
    ELSE /\ results' = [results EXCEPT ![r] = out.value]
         /\ pc' = [pc EXCEPT ![r] = "rank"]
         /\ UNCHANGED <<ret, outcome, logs>>

\* search_cases line 44
Enhance(r) ==
    /\ pc[r] = "enhance"
    /\ EnhanceWith(r, EnhanceWithTopics(results[r], call[r].topics, call[r].topicsIsNone))
    /\ UNCHANGED <<call, gets, resp, extracted, ranked, detail, harnessVars>>

\* search_cases line 47
Rank(r) ==
    /\ pc[r] = "rank"
    /\ results' = [results EXCEPT ![r] = ScoreAll(@, call[r].query)]
    /\ ranked' = [ranked EXCEPT ![r] = RankByRelevance(results[r], call[r].query)]
    /\ pc' = [pc EXCEPT ![r] = "return"]
    /\ UNCHANGED <<call, gets, resp, extracted, ret, outcome, logs, detail, harnessVars>>

\* search_cases line 49
ReturnRanked(r) ==
    /\ pc[r] = "return"
    /\ ret' = [ret EXCEPT ![r] = Take(ranked[r], call[r].limit)]
    /\ outcome' = [outcome EXCEPT ![r] = "returned"]
    /\ pc' = [pc EXCEPT ![r] = "done"]
    /\ UNCHANGED <<call, gets, resp, extracted, results, ranked, logs, detail, harnessVars>>

\* find_similar_cases lines 88-94
ExtractOutcomes(r) ==
    /\ pc[r] = "outcomes"
    /\ results' = [results EXCEPT ![r] = WithOutcomes(@)]
    /\ ret' = [ret EXCEPT ![r] = WithOutcomes(results[r])]
    /\ outcome' = [outcome EXCEPT ![r] = "returned"]
    /\ pc' = [pc EXCEPT ![r] = "done"]
    /\ UNCHANGED <<call, gets, resp, extracted, ranked, logs, detail, harnessVars>>

\* get_case_details up to the await of client.get
CallGetCaseDetails(r) ==
    /\ pc[r] = "idle"
    /\ \E case_id \in CaseIds :
          /\ call' = [call EXCEPT ![r] = [op |-> "get_case_details", case_id |-> case_id]]
          /\ gets' = [gets EXCEPT ![r] = Append(@, [url |-> DetailUrl(case_id)])]
    /\ pc' = [pc EXCEPT ![r] = "awaitDetail"]
    /\ UNCHANGED <<resp, extracted, results, ranked, ret, outcome, logs, detail, harnessVars>>

\* get_case_details ends: it returned value, or raised exc, having logged written
DetailEnds(r, answer, out) ==
    /\ resp' = [resp EXCEPT ![r] = answer]
    /\ detail' = [detail EXCEPT ![r] = out.value]
    /\ outcome' = [outcome EXCEPT ![r] = IF out.raised = "" THEN "returned" ELSE "raised"]
    /\ logs' = [logs EXCEPT ![r] = @ \o out.logs]
    /\ pc' = [pc EXCEPT ![r] = "done"]
    /\ UNCHANGED <<call, gets, extracted, results, ranked, ret, harnessVars>>

\* the except clause of get_case_details, lines 134-136
DetailHandler(exc) ==
    IF CatchesException(exc)
    THEN Returned(None, <<"ERROR: Error fetching case details">>)
    ELSE [raised |-> exc, value |-> None, logs |-> <<>>]

\* the awaited GET of the detail page raises a transport error
DetailGetRaises(r) ==
    /\ pc[r] = "awaitDetail"
    /\ \E exc \in NetworkExceptions :
          DetailEnds(r, [kind |-> "raise", exc |-> exc], DetailHandler(exc))

\* lines 114-116: a non-success status
DetailGetFails(r) ==
    /\ pc[r] = "awaitDetail"
    /\ \E status \in HttpStatuses \ {200} :
          DetailEnds(r, [kind |-> "response", status |-> status, page |-> <<>>],
                     Returned(None, <<"WARNING: Failed to fetch case">>))

\* lines 118-132: the page is parsed and the details are returned
DetailGetSucceeds(r) ==
    /\ pc[r] = "awaitDetail"
    /\ \E page \in DetailPages :
          \E citations \in Orderings(CitationYears(PageText(page))) :
              DetailEnds(r, [kind |-> "response", status |-> 200, page |-> page],
                         Returned(CaseDetails(call[r].case_id, page, citations,
                                              DetailUrl(call[r].case_id)),
                                  <<>>))

RequestStep(r) ==
    \/ CallGetCaseDetails(r)
    \/ DetailGetRaises(r)
    \/ DetailGetFails(r)
    \/ DetailGetSucceeds(r)
    \/ CallSearchCases(r)
    \/ CallFindSimilarCases(r)
    \/ GetRaises(r)
    \/ GetFails(r)
    \/ GetSucceeds(r)
    \/ Enhance(r)
    \/ Rank(r)
    \/ ReturnRanked(r)
    \/ ExtractOutcomes(r)

Init == InitRequests({"r1"}) /\ HarnessIdleBut("")

Next == \E r \in Reqs : RequestStep(r)

\* one request against the case-law service
Spec == Init /\ [][Next]_vars

(***************************************************************************)
(* search_cases end to end on a page of two fragments                      *)
(***************************************************************************)
\* limit: int = 10
DefaultLimit == 10

EndToEndQuery == "section 138 cheque bounce"

\* topic lists of which exactly one topic occurs in the Supreme Court fragments
\* and none in the others
EndToEndTopics == {<<"Dishonour">>, <<"bail", "dishonour", "tenancy">>}

\* Supreme Court, 2022, one topic match; with none and with one query term
SupremeFragments ==
    {[hasAnchor |-> TRUE, anchorText |-> "Ram v State", href |-> "/doc/11/",
      hasSnippet |-> TRUE, snippetText |-> "dishonour proved",
      hasMeta |-> TRUE, metaText |-> "Supreme Court of India on 12/03/2022 (2022)",
      raises |-> FALSE],
     [hasAnchor |-> TRUE, anchorText |-> "Ram v State", href |-> "/doc/12/",
      hasSnippet |-> TRUE, snippetText |-> "Dishonour of cheque",
      hasMeta |-> TRUE, metaText |-> "Supreme Court (2022)",
      raises |-> FALSE]}

\* no court, 2010, no topic match; with all, two and none of the query terms
PlainFragments ==
    {[hasAnchor |-> TRUE, anchorText |-> "Section 138 cheque bounce", href |-> "/doc/21/",
      hasSnippet |-> TRUE, snippetText |-> "Bounce of a cheque, section 138",
      hasMeta |-> TRUE, metaText |-> "decided 1-2-2010 (2010)",
      raises |-> FALSE],
     [hasAnchor |-> TRUE, anchorText |-> "Cheque returned", href |-> "/doc/22/",
      hasSnippet |-> TRUE, snippetText |-> "under section 142",
      hasMeta |-> TRUE, metaText |-> "(2010)",
      raises |-> FALSE],
     [hasAnchor |-> TRUE, anchorText |-> "Land matter", href |-> "/doc/23/",
      hasSnippet |-> FALSE, snippetText |-> "",
      hasMeta |-> TRUE, metaText |-> "(2010)",
      raises |-> FALSE]}

\* the two fragments in either order of the page
EndToEndPages ==
    {<<a, b>> : a \in SupremeFragments, b \in PlainFragments}
    \cup {<<b, a>> : a \in SupremeFragments, b \in PlainFragments}

\* limits that admit both fragments: the default and the small ones
EndToEndLimits == (2 .. MaxLimit) \cup {DefaultLimit}

\* search_cases(EndToEndQuery, topics, limit) up to the await of client.get
CallEndToEnd(r) ==
    /\ pc[r] = "idle"
    /\ \E topics \in EndToEndTopics, limit \in EndToEndLimits :
          call' = [call EXCEPT ![r] =
                     [op |-> "search_cases", query |-> EndToEndQuery, topics |-> topics,
                      topicsIsNone |-> FALSE, limit |-> limit]]
    /\ gets' = [gets EXCEPT ![r] = Append(@, GetParams(EndToEndQuery, ""))]
    /\ logs' = [logs EXCEPT ![r] = Append(@, "INFO: Searching case laws for")]
    /\ pc' = [pc EXCEPT ![r] = "await"]
    /\ UNCHANGED <<resp, extracted, results, ranked, ret, outcome, detail, harnessVars>>

\* the awaited GET returns a page of the two fragments
EndToEndPageArrives(r) ==
    /\ pc[r] = "await"
    /\ \E divs \in EndToEndPages :
          Resume(r, [kind |-> "response", status |-> 200, divs |-> divs])

NextEndToEnd ==
    \E r \in Reqs :
        \/ CallEndToEnd(r)
        \/ EndToEndPageArrives(r)
        \/ GetRaises(r)
        \/ GetFails(r)
        \/ Enhance(r)
        \/ Rank(r)
        \/ ReturnRanked(r)

SpecEndToEnd == Init /\ [][NextEndToEnd]_vars

(***************************************************************************)
(* two requests running concurrently on the one service instance           *)
(***************************************************************************)
ConcurrentSearches ==
    {in \in SearchInputs : in.query = "section 138 cheque bounce" \/ in.topicsIsNone}

ConcurrentLimits == {1, MaxLimit}

ConcurrentPages ==
    {<<FragSupreme, FragHigh>>, <<FragOld>>, <<FragNoAnchor, FragRaises, FragBare>>}

\* search_cases up to the await of client.get
CallSearchConcurrent(r) ==
    /\ pc[r] = "idle"
    /\ \E in \in ConcurrentSearches, limit \in ConcurrentLimits :
          /\ call' = [call EXCEPT ![r] =
                        [op |-> "search_cases", query |-> in.query, topics |-> in.topics,
                         topicsIsNone |-> in.topicsIsNone, limit |-> limit]]
          /\ gets' = [gets EXCEPT ![r] = Append(@, GetParams(in.query, ""))]
    /\ logs' = [logs EXCEPT ![r] = Append(@, "INFO: Searching case laws for")]
    /\ pc' = [pc EXCEPT ![r] = "await"]
    /\ UNCHANGED <<resp, extracted, results, ranked, ret, outcome, detail, harnessVars>>

\* find_similar_cases up to the await of client.get
CallSimilarConcurrent(r) ==
    /\ pc[r] = "idle"
    /\ \E in \in SimilarInputs :
          /\ call' = [call EXCEPT ![r] =
                        [op |-> "find_similar_cases",
                         query |-> ConstructSimilarityQuery(in.case_facts, in.legal_issues),
                         jurisdiction |-> in.jurisdiction, limit |-> MaxLimit]]
          /\ gets' = [gets EXCEPT ![r] = Append(@, GetParams(call'[r].query, in.jurisdiction))]
    /\ logs' = [logs EXCEPT ![r] = Append(@, "INFO: Finding similar cases...")]
    /\ pc' = [pc EXCEPT ![r] = "await"]
    /\ UNCHANGED <<resp, extracted, results, ranked, ret, outcome, detail, harnessVars>>

\* the awaited GET of request r returns a result page
PageArrivesConcurrent(r) ==
    /\ pc[r] = "await"
    /\ \E divs \in ConcurrentPages :
          Resume(r, [kind |-> "response", status |-> 200, divs |-> divs])

\* both requests are accepted; a step is the code of one of them between two
\* awaits
InitConcurrent == InitRequests(Reqs) /\ HarnessIdleBut("")

NextConcurrent ==
    \E r \in Reqs :
        \/ CallSearchConcurrent(r)
        \/ CallSimilarConcurrent(r)
        \/ PageArrivesConcurrent(r)
        \/ GetRaises(r)
        \/ GetFails(r)
        \/ Enhance(r)
        \/ Rank(r)
        \/ ReturnRanked(r)
        \/ ExtractOutcomes(r)

SpecConcurrent == InitConcurrent /\ [][NextConcurrent]_vars

(***************************************************************************)
(* the HTTP clients over the life of the process                           *)
(***************************************************************************)
\* CaseLawService.__init__: self.client = httpx.AsyncClient(timeout=30.0)
NewCaseLawService(owner) == [owner |-> owner, state |-> "open"]

\* CaseLawService.close: await self.client.aclose()
Closed(client) == [client EXCEPT !.state = "closed"]

InitLifecycle ==
    /\ InitRequests({"r1"})
    /\ HarnessIdleBut("proc")
    /\ proc = [phase |-> "boot", clients |-> <<>>]

\* legal_ai_service.py line 19 imports services.case_law_service, whose last
\* line constructs the module's singleton
ImportCaseLawService ==
    /\ proc.phase = "boot"
    /\ proc' = [phase |-> "imported",
                clients |-> Append(proc.clients, NewCaseLawService("case_law_service"))]
    /\ UNCHANGED searchVars
    /\ HarnessUnchangedBut("proc")

\* legal_ai_service.py line 623 constructs LegalAIService, whose __init__
\* constructs a CaseLawService of its own (line 49)
ConstructLegalAIService ==
    /\ proc.phase = "imported"
    /\ proc' = [phase |-> "running",
                clients |-> Append(proc.clients,
                                   NewCaseLawService("legal_ai_service.case_law_service"))]
    /\ UNCHANGED searchVars
    /\ HarnessUnchangedBut("proc")

\* a step of a request served by the running process
ServeRequest ==
    /\ proc.phase = "running"
    /\ \E r \in Reqs :
          \/ CallEndToEnd(r)
          \/ EndToEndPageArrives(r)
          \/ GetRaises(r)
          \/ GetFails(r)
          \/ Enhance(r)
          \/ Rank(r)
          \/ ReturnRanked(r)
          \/ CallGetCaseDetails(r)
          \/ DetailGetRaises(r)
          \/ DetailGetFails(r)
          \/ DetailGetSucceeds(r)

\* the process shuts down: no code of the repository runs at shutdown, and
\* close() has no caller
Shutdown ==
    /\ proc.phase = "running"
    /\ proc' = [proc EXCEPT !.phase = "stopped"]
    /\ UNCHANGED searchVars
    /\ HarnessUnchangedBut("proc")

NextLifecycle ==
    \/ ImportCaseLawService
    \/ ConstructLegalAIService
    \/ ServeRequest
    \/ Shutdown

SpecLifecycle == InitLifecycle /\ [][NextLifecycle]_vars

(***************************************************************************)
(* _clean_query on its own                                                 *)
(***************************************************************************)
\* a letter of each case, a digit, the underscore, two kinds of whitespace,
\* two special characters
QueryAlphabet == {"a", "Z", "7", "_", " ", "\t", "-", "?"}

RECURSIVE StringsUpTo(_, _)
StringsUpTo(alphabet, n) ==
    IF n = 0 THEN {""}
    ELSE {""} \cup {c \o t : c \in alphabet, t \in StringsUpTo(alphabet, n - 1)}

RawQueries == StringsUpTo(QueryAlphabet, MaxQueryLen)

InitClean ==
    /\ InitRequests({})
    /\ cq \in {[pc |-> "input", input |-> q, once |-> "", twice |-> ""] : q \in RawQueries}
    /\ HarnessIdleBut("cq")

\* clean = _clean_query(query)
CleanOnce ==
    /\ cq.pc = "input"
    /\ cq' = [cq EXCEPT !.pc = "once", !.once = CleanQuery(cq.input)]
    /\ UNCHANGED searchVars
    /\ HarnessUnchangedBut("cq")

\* _clean_query(clean)
CleanTwice ==
    /\ cq.pc = "once"
    /\ cq' = [cq EXCEPT !.pc = "twice", !.twice = CleanQuery(cq.once)]
    /\ UNCHANGED searchVars
    /\ HarnessUnchangedBut("cq")

NextClean == CleanOnce \/ CleanTwice

SpecClean == InitClean /\ [][NextClean]_vars

(***************************************************************************)
(* _extract_outcome on its own                                             *)
(***************************************************************************)
SummarySegments ==
    {"Dismissed", "REJECTED", "no ", "merit", "allowed", "granted",
     "favor of plaintiff", "Settled", "compromise", " the court "}

RECURSIVE ConcatsUpTo(_, _)
ConcatsUpTo(segments, n) ==
    IF n = 0 THEN {""}
    ELSE {""} \cup {g \o t : g \in segments, t \in ConcatsUpTo(segments, n - 1)}

Summaries == ConcatsUpTo(SummarySegments, MaxSegments)

InitOutcome ==
    /\ InitRequests({})
    /\ HarnessIdleBut("oc")
    /\ oc \in {[pc |-> "input", hasSummary |-> TRUE, summary |-> t, outcome |-> ""] :
                  t \in Summaries}
              \cup {[pc |-> "input", hasSummary |-> FALSE, summary |-> "", outcome |-> ""]}

\* the dict handed to _extract_outcome: with a summary, or without the key
CaseOf(in) == IF in.hasSummary THEN [summary |-> in.summary] ELSE [title |-> "untitled"]

\* outcome = await self._extract_outcome(case)
ExtractOutcomeOnce ==
    /\ oc.pc = "input"
    /\ oc' = [oc EXCEPT !.pc = "done", !.outcome = ExtractOutcome(CaseOf(oc))]
    /\ UNCHANGED searchVars
    /\ HarnessUnchangedBut("oc")

NextOutcome == ExtractOutcomeOnce

SpecOutcome == InitOutcome /\ [][NextOutcome]_vars

(***************************************************************************)
(* _build_context on its own                                               *)
(***************************************************************************)
\* the k-th statute section and the k-th case law, all different
ActNo(k) ==
    [act_name |-> "Act " \o Char(UpperLetters, k), section |-> Char(DigitChars, k + 1),
     text |-> "provision " \o Char(LowerLetters, k)]
CaseNo(k) ==
    [title |-> "Case " \o Char(UpperLetters, k), year |-> "201" \o Char(DigitChars, k + 1),
     summary |-> "held " \o Char(LowerLetters, k)]

\* the lists 1..n and n..1 of the items, for every n up to the bound
Ascending(ItemNo(_), n) == [i \in 1..n |-> ItemNo(i)]
Descending(ItemNo(_), n) == [i \in 1..n |-> ItemNo(n + 1 - i)]
ItemLists(ItemNo(_)) ==
    {Ascending(ItemNo, n) : n \in 0..MaxItems} \cup {Descending(ItemNo, n) : n \in 0..MaxItems}

Twice(s) == s \o s

\* s * n
RECURSIVE Repeat(_, _)
Repeat(s, n) ==
    IF n = 0 THEN ""
    ELSE IF n % 2 = 0 THEN Twice(Repeat(s, n \div 2))
    ELSE s \o Repeat(s, n - 1)

\* vector documents shorter than, exactly as long as, and longer than the
\* 200 characters kept
\* vector documents: two short ones, one exactly as long as the 200
\* characters kept, one a character longer
DocShort == [page_content |-> "A short note"]
DocOther == [page_content |-> "Another note"]
DocExact == [page_content |-> "B" \o Repeat("x", SnippetChars - 1)]
DocLong == [page_content |-> "C" \o Repeat("y", SnippetChars - 1) \o "Z"]

\* every combination of lists, short documents
InitContext ==
    /\ InitRequests({})
    /\ HarnessIdleBut("bc")
    /\ bc \in {[pc |-> "input", bare_acts |-> a, case_laws |-> c, vector_docs |-> d] :
                  a \in ItemLists(ActNo), c \in ItemLists(CaseNo),
                  d \in SeqsUpTo({DocShort, DocOther}, MaxDocs)}

\* documents of every length around the 200 characters, few other items
InitSnippets ==
    /\ InitRequests({})
    /\ HarnessIdleBut("bc")
    /\ bc \in {[pc |-> "input", bare_acts |-> a, case_laws |-> c, vector_docs |-> d] :
                  a \in {<<>>, <<ActNo(1)>>}, c \in {<<>>, <<CaseNo(1)>>},
                  d \in SeqsUpTo({DocShort, DocExact, DocLong}, MaxDocs)}

\* context = self._build_context(bare_acts, case_laws, vector_docs)
BuildContextOnce ==
    /\ bc.pc = "input"
    /\ bc' = [pc |-> "done", bare_acts |-> bc.bare_acts, case_laws |-> bc.case_laws,
              vector_docs |-> bc.vector_docs,
              context |-> BuildContext(bc.bare_acts, bc.case_laws, bc.vector_docs)]
    /\ UNCHANGED searchVars
    /\ HarnessUnchangedBut("bc")

NextContext == BuildContextOnce

SpecContext == InitContext /\ [][NextContext]_vars

SpecSnippets == InitSnippets /\ [][NextContext]_vars

(***************************************************************************)
(* analyze_document                                                        *)
(***************************************************************************)
\* what self.text_splitter.split_text returns: chunks of the document, the
\* same text possibly more than once
ChunkTexts == {"Clause one.", "party {B} shall pay"}
ChunkLists == SeqsUpTo(ChunkTexts, MaxChunks)

DocumentTypes == {"contract", "fir", "notice", "affidavit"}

\* what self.llm.apredict returns, and what it raises
LlmAnswers == {"Fine.", "- risk: it's \"void\"\n\n  - unclear term \n"}
LlmException == "APIError"

InitAnalyze ==
    /\ InitRequests({})
    /\ HarnessIdleBut("an")
    /\ an \in {[pc |-> "input", document_text |-> "Clause one. party {B} shall pay",
                 document_type |-> t, chunks |-> c,
                 prompts |-> <<>>, answers |-> <<>>, chunk_analyses |-> <<>>,
                 combined |-> "", key_points |-> <<>>, risks |-> <<>>,
                 result |-> None, outcome |-> "pending", logs |-> <<>>] :
                   t \in DocumentTypes, c \in ChunkLists}

\* the state after the LLM was asked prompt and the coroutine awaits at at
Asking(state, prompt, at) == [state EXCEPT !.pc = at, !.prompts = Append(@, prompt)]

\* the loop is left: _combine_analyses, then _extract_key_points up to its await
AfterChunks(state, combined) ==
    Asking([state EXCEPT !.combined = combined], KeyPointsPrompt(combined), "awaitKeyPoints")

\* the loop goes on (or is entered) with chunk i
NextChunk(state, i) ==
    Asking([state EXCEPT !.logs = Append(@, ChunkLog(i, Len(state.chunks)))],
           ChunkPrompt(GetAnalysisPrompt(state.document_type), state.chunks, i),
           "awaitChunk")

\* lines 198-206 with `done` chunks analyzed
LoopFrom(state, done) ==
    IF done < Len(state.chunks) THEN NextChunk(state, done + 1)
    ELSE AfterChunks(state, CombineAnalyses(state.chunk_analyses))

\* analyze_document up to its first await
AnalyzeBegin ==
    /\ an.pc = "input"
    /\ an' = LoopFrom([an EXCEPT !.logs = <<"INFO: Analyzing " \o an.document_type
                                             \o " document...">>], 0)
    /\ UNCHANGED searchVars
    /\ HarnessUnchangedBut("an")

\* the LLM returns the analysis of a chunk
ChunkAnswered ==
    /\ an.pc = "awaitChunk"
    /\ \E answer \in LlmAnswers :
          an' = LoopFrom([an EXCEPT !.answers = Append(@, answer),
                                    !.chunk_analyses = Append(@, answer)],
                         Len(an.chunk_analyses) + 1)
    /\ UNCHANGED searchVars
    /\ HarnessUnchangedBut("an")

\* the LLM returns the key points; _identify_risks up to its await
KeyPointsAnswered ==
    /\ an.pc = "awaitKeyPoints"
    /\ \E answer \in LlmAnswers :
          an' = Asking([an EXCEPT !.answers = Append(@, answer),
                                  !.key_points = StrippedLines(answer)],
                       RiskPrompt(an.document_text, an.document_type), "awaitRisks")
    /\ UNCHANGED searchVars
    /\ HarnessUnchangedBut("an")

\* the LLM returns the risks; _suggest_improvements up to its await
RisksAnswered ==
    /\ an.pc = "awaitRisks"
    /\ \E answer \in LlmAnswers :
          an' = Asking([an EXCEPT !.answers = Append(@, answer),
                                  !.risks = RisksOf(answer)],
                       SuggestionsPrompt(an.document_type, RisksOf(answer)),
                       "awaitSuggestions")
    /\ UNCHANGED searchVars
    /\ HarnessUnchangedBut("an")

\* the LLM returns the suggestions; the result is returned
SuggestionsAnswered ==
    /\ an.pc = "awaitSuggestions"
    /\ \E answer \in LlmAnswers :
          an' = [an EXCEPT !.pc = "done", !.answers = Append(@, answer),
                           !.outcome = "returned",
                           !.result = AnalysisResult(an.combined, an.key_points, an.risks,
                                                     StrippedLines(answer), an.document_type,
                                                     an.chunks, an.document_text)]
    /\ UNCHANGED searchVars
    /\ HarnessUnchangedBut("an")

\* the awaited LLM call raises: lines 232-234 log the error and raise it again
LlmRaises ==
    /\ an.pc \in {"awaitChunk", "awaitKeyPoints", "awaitRisks", "awaitSuggestions"}
    /\ an' = [an EXCEPT !.pc = "done", !.outcome = "raised",
                        !.logs = Append(@, "ERROR: Error analyzing document: " \o LlmException)]
    /\ UNCHANGED searchVars
    /\ HarnessUnchangedBut("an")

NextAnalyze ==
    \/ AnalyzeBegin
    \/ ChunkAnswered
    \/ KeyPointsAnswered
    \/ RisksAnswered
    \/ SuggestionsAnswered
    \/ LlmRaises

SpecAnalyze == InitAnalyze /\ [][NextAnalyze]_vars

(***************************************************************************)
(* generate_response                                                       *)
(***************************************************************************)
\* history[-5:], bare_acts[:5] and case_laws[:5]
LastMessages == 5
TopSources == 5

\* xs[-n:]
TakeLast(xs, n) == SubSeq(xs, IF Len(xs) > n THEN Len(xs) - n + 1 ELSE 1, Len(xs))

UpperChar(c) == IF IsLowerLetter(c) THEN Char(UpperLetters, IndexIn(c, LowerLetters)) ELSE c

\* str.capitalize()
Capitalize(s) == IF s = "" THEN "" ELSE UpperChar(Char(s, 1)) \o Lower(SubSeq(s, 2, Len(s)))

\* f"{role.capitalize()}: {content}"
HistoryLine(msg) ==
    Capitalize(DictGet(msg, "role", "user")) \o ": " \o DictGet(msg, "content", "")

\* _format_chat_history; history is <<>> for None and for the empty list
FormatChatHistory(history) ==
    IF history = <<>> THEN "No previous conversation"
    ELSE Join("\n", [i \in 1..Len(TakeLast(history, LastMessages)) |->
                        HistoryLine(TakeLast(history, LastMessages)[i])])

\* the prompt of _extract_legal_topics
TopicPrompt(query) ==
    "Extract the main legal topics from this query. \nReturn as comma-separated list.\n\nQuery: "
    \o query
    \o "\n\nTopics (e.g., \"criminal law, Section 138 NI Act, cheque bounce\"):"

\* [t.strip() for t in topics_str.split(',')]
TopicsOf(topics_str) == StripEach(SplitOn(topics_str, ","))

\* BareActsService.search_sections: the list it returns for every query
BareActsFound ==
    <<[act_name |-> "Indian Penal Code", section |-> "420",
       text |-> "Cheating and dishonestly inducing delivery of property",
       url |-> "https://www.indiacode.nic.in/", relevance |-> "0.9"]>>

BareActSource(act) ==
    [type |-> "bare_act", title |-> act.act_name \o ", Section " \o act.section,
     url |-> DictGet(act, "url", ""), relevance |-> DictGet(act, "relevance", "0.0")]

CaseLawSource(case) ==
    [type |-> "case_law", title |-> case.title \o " (" \o case.year \o ")",
     url |-> DictGet(case, "url", ""), court |-> DictGet(case, "court", ""),
     relevance2 |-> DictGet(case, "relevance2", 0)]

\* _extract_sources
ExtractSources(bare_acts, case_laws) ==
    [i \in 1..Len(Take(bare_acts, TopSources)) |-> BareActSource(bare_acts[i])]
    \o [i \in 1..Len(Take(case_laws, TopSources)) |-> CaseLawSource(case_laws[i])]

Disclaimer ==
    "\n\n---\n**Disclaimer**: This information is for educational purposes only and does not constitute legal advice. Please consult a qualified lawyer for specific legal matters."

\* _add_disclaimer
AddDisclaimer(response) == response \o Disclaimer

\* the arguments of self.legal_prompt.format(...), lines 139-143
LegalPromptArgs(context, chat_history, question) ==
    [context |-> context, chat_history |-> chat_history, question |-> question]

\* the dict generate_response returns, lines 155-164
GeneratedResponse(response, sources, topics, bare_acts, case_laws) ==
    [response |-> AddDisclaimer(response), sources |-> sources, topics |-> topics,
     metadata |-> [bare_acts_found |-> Len(bare_acts), case_laws_found |-> Len(case_laws)]]

\* what search_cases returns: records, or [] when the search failed inside it
CaseLawAnswers ==
    {[failed |-> TRUE, value |-> <<>>],
     [failed |-> FALSE, value |-> <<>>],
     [failed |-> FALSE,
      value |-> <<[id |-> "11", title |-> "Ram v State", summary |-> "dishonour proved",
                   court |-> "Supreme Court", date |-> "12/03/2022", year |-> "2022",
                   url |-> "https://indiankanoon.org/doc/11/", relevance2 |-> 9,
                   topic_matches |-> 1]>>]}

\* what vectorstore.similarity_search returns or raises
VectorAnswers ==
    {[raised |-> "", value |-> <<>>],
     [raised |-> "", value |-> <<DocShort, DocOther>>],
     [raised |-> "ChromaError", value |-> <<>>]}

Histories ==
    {<<>>,
     <<[role |-> "user", content |-> "Is a bounced cheque an offence?"],
       [role |-> "ASSISTANT", content |-> "Yes, under Section 138."]>>}

TopicAnswers == {"cheque bounce, NI Act ", ""}
ResponseAnswers == {"A cheque bounce is an offence.", ""}

InitGenerate ==
    /\ InitRequests({})
    /\ HarnessIdleBut("gr")
    /\ gr \in {[pc |-> "input", query |-> "Is cheque bounce a crime?", history |-> h,
                 include_sources |-> inc, prompts |-> <<>>, topics |-> <<>>,
                 bare_acts |-> <<>>, case_laws |-> <<>>, vector_docs |-> <<>>,
                 failed |-> {}, context |-> "", result |-> None,
                 outcome |-> "pending", logs |-> <<>>] :
                   h \in Histories, inc \in BOOLEAN}

\* the except clause, lines 166-168: log and raise again
GenerateFails(state, exc) ==
    [state EXCEPT !.pc = "done", !.outcome = "raised",
                  !.logs = Append(@, "ERROR: Error generating response: " \o exc)]

\* generate_response up to the await in _extract_legal_topics
GenerateBegin ==
    /\ gr.pc = "input"
    /\ gr' = [gr EXCEPT !.pc = "awaitTopics",
                        !.prompts = <<TopicPrompt(gr.query)>>,
                        !.logs = <<"INFO: Processing legal query: "
                                   \o Take(gr.query, 100) \o "...">>]
    /\ UNCHANGED searchVars
    /\ HarnessUnchangedBut("gr")

\* the LLM returns the topics; search_sections is awaited
TopicsAnswered ==
    /\ gr.pc = "awaitTopics"
    /\ \E answer \in TopicAnswers :
          gr' = [gr EXCEPT !.pc = "awaitBareActs", !.topics = TopicsOf(answer),
                           !.logs = Append(@, "INFO: Identified topics")]
    /\ UNCHANGED searchVars
    /\ HarnessUnchangedBut("gr")

\* search_sections returns; search_cases is awaited
BareActsAnswered ==
    /\ gr.pc = "awaitBareActs"
    /\ gr' = [gr EXCEPT !.pc = "awaitCaseLaws", !.bare_acts = BareActsFound]
    /\ UNCHANGED searchVars
    /\ HarnessUnchangedBut("gr")

\* lines 132-144 once the vector store has returned docs
AskWithContext(state, docs) ==
    [state EXCEPT !.pc = "awaitResponse", !.vector_docs = docs,
                  !.context = BuildContext(state.bare_acts, state.case_laws, docs),
                  !.prompts = Append(@, LegalPromptArgs(
                                  BuildContext(state.bare_acts, state.case_laws, docs),
                                  FormatChatHistory(state.history), state.query))]

\* line 129 and what follows it, for the outcome vec of similarity_search
AfterVectorSearch(state, vec) ==
    IF vec.raised # ""
    THEN GenerateFails([state EXCEPT !.failed = @ \cup {"vector_store"}], vec.raised)
    ELSE AskWithContext(state, vec.value)

\* search_cases returns; the vector store is queried, the context is built
\* and the LLM is asked
CaseLawsAnswered ==
    /\ gr.pc = "awaitCaseLaws"
    /\ \E cases \in CaseLawAnswers, vec \in VectorAnswers :
          gr' = AfterVectorSearch(
                    [gr EXCEPT !.case_laws = cases.value,
                               !.failed = IF cases.failed THEN {"case_law"} ELSE {}],
                    vec)
    /\ UNCHANGED searchVars
    /\ HarnessUnchangedBut("gr")

\* the LLM returns the response; sources, disclaimer, return
ResponseAnswered ==
    /\ gr.pc = "awaitResponse"
    /\ \E answer \in ResponseAnswers :
          gr' = [gr EXCEPT !.pc = "done", !.outcome = "returned",
                           !.result = GeneratedResponse(
                               answer,
                               IF gr.include_sources
                               THEN ExtractSources(gr.bare_acts, gr.case_laws) ELSE <<>>,
                               gr.topics, gr.bare_acts, gr.case_laws)]
    /\ UNCHANGED searchVars
    /\ HarnessUnchangedBut("gr")

\* an awaited LLM call raises
GenerateLlmRaises ==
    /\ gr.pc \in {"awaitTopics", "awaitResponse"}
    /\ gr' = GenerateFails(gr, LlmException)
    /\ UNCHANGED searchVars
    /\ HarnessUnchangedBut("gr")

NextGenerate ==
    \/ GenerateBegin
    \/ TopicsAnswered
    \/ BareActsAnswered
    \/ CaseLawsAnswered
    \/ ResponseAnswered
    \/ GenerateLlmRaises

SpecGenerate == InitGenerate /\ [][NextGenerate]_vars

(***************************************************************************)
(* _rank_by_relevance on its own                                           *)
(***************************************************************************)
\* a record that went through the enhancement and an earlier ranking
Ranked(result, matches, relevance2) ==
    DictSet(DictSet(result, "topic_matches", matches), "relevance2", relevance2)

\* records as parsed (no topic_matches, relevance 0.0) and records that
\* already hold topic matches and a relevance of an earlier ranking
RankRecords ==
    {ExtractFields(f) : f \in {FragSupreme, FragHigh, FragOld, FragBare}}
    \cup {Ranked(ExtractFields(f), 1, 7) : f \in {FragSupreme, FragOld}}

RankQueries == {"section 138 cheque bounce", "Land  LAND dispute?"}

InitRank ==
    /\ InitRequests({})
    /\ HarnessIdleBut("rk")
    /\ rk \in {[pc |-> "input", query |-> q, input |-> xs, scored |-> xs,
                 once |-> <<>>, twice |-> <<>>] :
                   q \in RankQueries, xs \in SeqsUpTo(RankRecords, MaxDivs)}

\* once = self._rank_by_relevance(results, query); the dicts of results hold
\* their score afterwards
RankFirst ==
    /\ rk.pc = "input"
    /\ rk' = [rk EXCEPT !.pc = "once",
                        !.scored = ScoreAll(rk.input, rk.query),
                        !.once = RankByRelevance(rk.input, rk.query)]
    /\ UNCHANGED searchVars
    /\ HarnessUnchangedBut("rk")

\* twice = self._rank_by_relevance(once, query)
RankAgain ==
    /\ rk.pc = "once"
    /\ rk' = [rk EXCEPT !.pc = "twice",
                        !.twice = RankByRelevance(rk.once, rk.query)]
    /\ UNCHANGED searchVars
    /\ HarnessUnchangedBut("rk")

NextRank == RankFirst \/ RankAgain

SpecRank == InitRank /\ [][NextRank]_vars

(***************************************************************************)
(* the chat endpoints (backend/api/chat.py) over a database session        *)
(***************************************************************************)
ChatUsers == {"u1", "u2"}
MaxConversations == 2
MaxMessages == 4
TitleChars == 100
ChunkSize == 5

\* Conversation(user_id=..., title=...) with the id the database gives it
ConversationRow(id, user_id, title) == [id |-> id, user_id |-> user_id, title |-> title]

\* Message(conversation_id=..., role=..., content=...)
MessageRow(conversation_id, role, content) ==
    [conversation_id |-> conversation_id, role |-> role, content |-> content]

\* str(conversation.id) of the n-th conversation the database stored
ConvId(n) == "c" \o IntStr(n)

\* the stored rows, the rows the session holds and has not committed, and the
\* number of the next conversation
EmptyDb ==
    [convs |-> {}, msgs |-> <<>>, pending_convs |-> {}, pending_msgs |-> <<>>,
     next_id |-> 1]

\* db.add(conversation)
DbAddConversation(db, row) ==
    [db EXCEPT !.pending_convs = @ \cup {row}, !.next_id = @ + 1]

\* db.add(message)
DbAddMessage(db, row) == [db EXCEPT !.pending_msgs = Append(@, row)]

\* db.commit(): what the session holds is stored
DbCommit(db) ==
    [db EXCEPT !.convs = @ \cup db.pending_convs, !.msgs = @ \o db.pending_msgs,
               !.pending_convs = {}, !.pending_msgs = <<>>]

\* db.rollback(): what the session holds and has not committed is dropped
DbRollback(db) == [db EXCEPT !.pending_convs = {}, !.pending_msgs = <<>>]

NotOf(conversation_id, m) == m.conversation_id # conversation_id

\* db.delete(conversation); db.commit(), the messages going with it or staying
DbDelete(db, conversation_id, cascade) ==
    [db EXCEPT !.convs = {c \in @ : c.id # conversation_id},
               !.msgs = IF cascade
                        THEN SelectSeq(@, LAMBDA m : NotOf(conversation_id, m))
                        ELSE @]

\* db.query(Conversation).filter(id == ..., user_id == current_user.id)
OwnedConversations(db, conversation_id, user) ==
    {c \in db.convs : c.id = conversation_id /\ c.user_id = user}

\* db.query(Message).filter(conversation_id == ...).all()
MessagesOf(db, conversation_id) ==
    SelectSeq(db.msgs, LAMBDA m : m.conversation_id = conversation_id)

\* [{"role": msg.role, "content": msg.content} for msg in history]
HistoryList(msgs) ==
    [i \in DOMAIN msgs |-> [role |-> msgs[i].role, content |-> msgs[i].content]]

\* the user a stored conversation belongs to, "" when there is none
OwnerOf(db, conversation_id) ==
    IF \E c \in db.convs : c.id = conversation_id
    THEN (CHOOSE c \in db.convs : c.id = conversation_id).user_id
    ELSE ""

\* one reading or writing of the messages of a conversation by a request
Access(op, db, conversation_id) ==
    [op |-> op, conversation_id |-> conversation_id,
     owner |-> OwnerOf(db, conversation_id)]

\* str(e) of an HTTPException: "status: detail" where the class defines
\* __str__, the empty text where it does not
StrOfHttpException(status, text) == {IntStr(status) \o ": " \o text, ""}

NoRequest == [message |-> "", conversation_id |-> "", include_sources |-> FALSE]
NoReply == [status |-> 0, detail |-> "", conversation_id |-> "", response |-> "",
            messages |-> <<>>]
NoAnswer == [response |-> "", sources |-> <<>>]

Reply(status, text) == [NoReply EXCEPT !.status = status, !.detail = text]

ChatTexts == {"Is cheque bounce a crime?"}

\* "" is the conversation_id left out; the others may or may not be stored
ConversationIdsAsked == {""} \cup {ConvId(n) : n \in 1..MaxConversations}

ChatRequests ==
    {[message |-> m, conversation_id |-> c, include_sources |-> s] :
        m \in ChatTexts, c \in ConversationIdsAsked, s \in BOOLEAN}

ChatLlmAnswers == {"A cheque bounce is an offence under the Act.", ""}

ChatCaseLaws == {a.value : a \in {b \in CaseLawAnswers : ~b.failed}}

\* what generate_response returns to the endpoint
ChatAnswers(include_sources) ==
    {GeneratedResponse(text,
                       IF include_sources THEN ExtractSources(BareActsFound, case_laws)
                                          ELSE <<>>,
                       <<>>, BareActsFound, case_laws) :
        text \in ChatLlmAnswers, case_laws \in ChatCaseLaws}

\* a request that has just arrived at an endpoint
Requested(db, endpoint, user, request) ==
    [pc |-> "done", db |-> db, before |-> db, endpoint |-> endpoint, user |-> user,
     request |-> request, conversation_id |-> request.conversation_id,
     history_list |-> <<>>, generated |-> 0, response |-> NoAnswer, words |-> <<>>,
     i |-> 0, events |-> <<>>, reply |-> NoReply, touched |-> {}]

Ready == ch.pc \in {"idle", "done"}

\* ---- send_message ----
\* lines 62-69 and 130-133: no conversation of the current user has the id;
\* the HTTPException raised inside the try is caught by except Exception
SendMessageNotFound(user, request) ==
    /\ Ready
    /\ request.conversation_id # ""
    /\ OwnedConversations(ch.db, request.conversation_id, user) = {}
    /\ \E text \in StrOfHttpException(404, "Conversation not found") :
         ch' = [Requested(ch.db, "send_message", user, request) EXCEPT
                   !.db = DbRollback(ch.db), !.reply = Reply(500, text)]
    /\ UNCHANGED searchVars
    /\ HarnessUnchangedBut("ch")

\* lines 70-78: the conversation created and committed when no id was given
ConversationFor(db, user, request) ==
    IF request.conversation_id # "" THEN db
    ELSE DbCommit(DbAddConversation(db,
            ConversationRow(ConvId(db.next_id), user, Take(request.message, TitleChars))))

ConversationIdFor(db, request) ==
    IF request.conversation_id # "" THEN request.conversation_id ELSE ConvId(db.next_id)

\* lines 90-97: the user message added and committed
AfterUserMessage(db, user, request) ==
    DbCommit(DbAddMessage(ConversationFor(db, user, request),
                          MessageRow(ConversationIdFor(db, request), "user",
                                     request.message)))

\* lines 58-100: up to the call of generate_response
SendMessageBegin(user, request) ==
    /\ Ready
    /\ request.conversation_id = "" => ch.db.next_id <= MaxConversations
    /\ request.conversation_id # "" =>
          OwnedConversations(ch.db, request.conversation_id, user) # {}
    /\ Len(ch.db.msgs) + 2 <= MaxMessages
    /\ ch' = [Requested(ch.db, "send_message", user, request) EXCEPT
                 !.pc = "generating",
                 !.db = AfterUserMessage(ch.db, user, request),
                 !.conversation_id = ConversationIdFor(ch.db, request),
                 !.history_list =
                     HistoryList(MessagesOf(ch.db, ConversationIdFor(ch.db, request))),
                 !.generated = 1,
                 !.touched =
                     {Access(op, ConversationFor(ch.db, user, request),
                             ConversationIdFor(ch.db, request)) : op \in {"read", "write"}}]
    /\ UNCHANGED searchVars
    /\ HarnessUnchangedBut("ch")

\* lines 100-128: the answer stored and returned
SendMessageAnswered ==
    /\ ch.pc = "generating"
    /\ ch.endpoint = "send_message"
    /\ \E answer \in ChatAnswers(ch.request.include_sources) :
         ch' = [ch EXCEPT
                   !.pc = "done",
                   !.response = [response |-> answer.response, sources |-> answer.sources],
                   !.db = DbCommit(DbCommit(DbAddMessage(ch.db,
                             MessageRow(ch.conversation_id, "assistant", answer.response)))),
                   !.reply = [NoReply EXCEPT !.status = 200,
                                             !.conversation_id = ch.conversation_id,
                                             !.response = answer.response]]
    /\ UNCHANGED searchVars
    /\ HarnessUnchangedBut("ch")

\* lines 130-133: generate_response raised
SendMessageFails ==
    /\ ch.pc = "generating"
    /\ ch.endpoint = "send_message"
    /\ ch' = [ch EXCEPT !.pc = "done", !.db = DbRollback(ch.db),
                        !.reply = Reply(500, LlmException)]
    /\ UNCHANGED searchVars
    /\ HarnessUnchangedBut("ch")

\* ---- get_conversation ----
ConversationRequest(conversation_id) == [NoRequest EXCEPT !.conversation_id = conversation_id]

\* lines 339-345 and 369-370: the HTTPException passes through
GetConversationNotFound(user, conversation_id) ==
    /\ Ready
    /\ OwnedConversations(ch.db, conversation_id, user) = {}
    /\ ch' = [Requested(ch.db, "get_conversation", user,
                        ConversationRequest(conversation_id)) EXCEPT
                 !.reply = Reply(404, "Conversation not found")]
    /\ UNCHANGED searchVars
    /\ HarnessUnchangedBut("ch")

\* lines 339-367
GetConversation(user, conversation_id) ==
    /\ Ready
    /\ OwnedConversations(ch.db, conversation_id, user) # {}
    /\ ch' = [Requested(ch.db, "get_conversation", user,
                        ConversationRequest(conversation_id)) EXCEPT
                 !.reply = [NoReply EXCEPT !.status = 200,
                                           !.conversation_id = conversation_id,
                                           !.messages = MessagesOf(ch.db, conversation_id)],
                 !.touched = {Access("read", ch.db, conversation_id)}]
    /\ UNCHANGED searchVars
    /\ HarnessUnchangedBut("ch")

\* ---- delete_conversation ----
\* lines 383-389 and 396-397
DeleteConversationNotFound(user, conversation_id) ==
    /\ Ready
    /\ OwnedConversations(ch.db, conversation_id, user) = {}
    /\ ch' = [Requested(ch.db, "delete_conversation", user,
                        ConversationRequest(conversation_id)) EXCEPT
                 !.reply = Reply(404, "Conversation not found")]
    /\ UNCHANGED searchVars
    /\ HarnessUnchangedBut("ch")

\* lines 383-394
DeleteConversation(user, conversation_id) ==
    /\ Ready
    /\ OwnedConversations(ch.db, conversation_id, user) # {}
    /\ \E cascade \in BOOLEAN :
         ch' = [Requested(ch.db, "delete_conversation", user,
                          ConversationRequest(conversation_id)) EXCEPT
                   !.db = DbDelete(ch.db, conversation_id, cascade),
                   !.reply = [NoReply EXCEPT !.status = 200],
                   !.touched = IF cascade /\ MessagesOf(ch.db, conversation_id) # <<>>
                               THEN {Access("write", ch.db, conversation_id)}
                               ELSE {}]
    /\ UNCHANGED searchVars
    /\ HarnessUnchangedBut("ch")

\* ---- upload_document ----
UploadFileName == "deed.pdf"

\* the formats of the docstring, line 211
AllowedExtensions == <<".pdf", ".docx", ".doc", ".txt", ".jpg", ".png">>

\* what the analysis of the uploaded text returned
UploadAnalysis ==
    AnalysisResult("Fine.", <<"Fine.">>, RisksOf("Fine."), <<"Fine.">>, "contract",
                   <<"Clause one.">>, "Clause one.")

Dashed(items) == Join("\n", [i \in DOMAIN items |-> "- " \o items[i]])
Descriptions(risks) == [i \in DOMAIN risks |-> risks[i].description]

\* lines 268-283
AnalysisContent(document_type, analysis) ==
    "**Document Analysis**\n\n**Type**: " \o document_type
    \o "\n\n**Analysis**:\n" \o analysis.analysis
    \o "\n\n**Key Points**:\n" \o Dashed(analysis.key_points)
    \o "\n\n**Risks Identified**:\n" \o Dashed(Descriptions(analysis.risks))
    \o "\n\n**Suggestions**:\n" \o Dashed(analysis.suggestions) \o "\n"

\* what str(e) is when the upload fails before it reaches the database: the
\* 400 of line 218 caught by except Exception, or the analysis raising
UploadFailures ==
    StrOfHttpException(400, "Unsupported file type. Allowed: "
                            \o Join(", ", AllowedExtensions))
    \cup {LlmException}

\* lines 213-241 and 301-303
UploadDocumentFails(user, conversation_id) ==
    /\ Ready
    /\ \E text \in UploadFailures :
         ch' = [Requested(ch.db, "upload_document", user,
                          ConversationRequest(conversation_id)) EXCEPT
                   !.reply = Reply(500, text)]
    /\ UNCHANGED searchVars
    /\ HarnessUnchangedBut("ch")

\* lines 244-252
UploadConversationFor(db, user, conversation_id) ==
    IF conversation_id # "" THEN db
    ELSE DbCommit(DbAddConversation(db,
            ConversationRow(ConvId(db.next_id), user, "Analysis: " \o UploadFileName)))

UploadConversationId(db, conversation_id) ==
    IF conversation_id # "" THEN conversation_id ELSE ConvId(db.next_id)

\* lines 255-292: both messages added, one commit
AfterUpload(db, user, conversation_id) ==
    DbCommit(DbAddMessage(DbAddMessage(UploadConversationFor(db, user, conversation_id),
        MessageRow(UploadConversationId(db, conversation_id), "user",
                   "[Uploaded document: " \o UploadFileName \o "]")),
        MessageRow(UploadConversationId(db, conversation_id), "assistant",
                   AnalysisContent(UploadAnalysis.document_type, UploadAnalysis))))

\* lines 213-299
UploadDocument(user, conversation_id) ==
    /\ Ready
    /\ conversation_id = "" => ch.db.next_id <= MaxConversations
    /\ Len(ch.db.msgs) + 2 <= MaxMessages
    /\ ch' = [Requested(ch.db, "upload_document", user,
                        ConversationRequest(conversation_id)) EXCEPT
                 !.db = AfterUpload(ch.db, user, conversation_id),
                 !.conversation_id = UploadConversationId(ch.db, conversation_id),
                 !.reply = [NoReply EXCEPT
                              !.status = 200,
                              !.conversation_id = UploadConversationId(ch.db, conversation_id)],
                 !.touched =
                     {Access("write", UploadConversationFor(ch.db, user, conversation_id),
                             UploadConversationId(ch.db, conversation_id))}]
    /\ UNCHANGED searchVars
    /\ HarnessUnchangedBut("ch")

\* lines 292 and 301-303: the commit refused because no conversation has the id
UploadDocumentRefused(user, conversation_id) ==
    /\ Ready
    /\ conversation_id # ""
    /\ OwnerOf(ch.db, conversation_id) = ""
    /\ ch' = [Requested(ch.db, "upload_document", user,
                        ConversationRequest(conversation_id)) EXCEPT
                 !.reply = Reply(500, "IntegrityError")]
    /\ UNCHANGED searchVars
    /\ HarnessUnchangedBut("ch")

\* ---- send_message_stream ----
\* str.split() of a text of any length: the words of its two halves, the
\* word the cut went through put together again
GlueWords(left, right, cut) ==
    IF cut \/ left = <<>> \/ right = <<>> THEN left \o right
    ELSE SubSeq(left, 1, Len(left) - 1) \o <<left[Len(left)] \o right[1]>> \o Tail(right)

RECURSIVE SplitLong(_)
SplitLong(s) ==
    IF Len(s) <= 40 THEN Split(s)
    ELSE GlueWords(SplitLong(SubSeq(s, 1, Len(s) \div 2)),
                   SplitLong(SubSeq(s, (Len(s) \div 2) + 1, Len(s))),
                   IsSpace(Char(s, Len(s) \div 2)) \/ IsSpace(Char(s, (Len(s) \div 2) + 1)))

\* repr() of the float that is half of n
HalfStr(n) == IntStr(n \div 2) \o (IF n % 2 = 0 THEN ".0" ELSE ".5")

\* repr() of one source dict and of the list of them
ReprSource(s) ==
    "{'type': " \o ReprStr(s.type) \o ", 'title': " \o ReprStr(s.title)
    \o ", 'url': " \o ReprStr(s.url)
    \o (IF s.type = "bare_act"
        THEN ", 'relevance': " \o s.relevance
        ELSE ", 'court': " \o ReprStr(s.court) \o ", 'relevance': " \o HalfStr(s.relevance2))
    \o "}"

ReprSources(sources) ==
    "[" \o Join(", ", [i \in DOMAIN sources |-> ReprSource(sources[i])]) \o "]"

\* ' '.join(words[i:i+chunk_size]) of six words at a time
WordGroupOfSix(words, i) ==
    Join(" ", SubSeq(words, i + 1,
                     IF i + ChunkSize + 1 < Len(words) THEN i + ChunkSize + 1 ELSE Len(words)))

\* ' '.join(words[i:i+chunk_size]), i counted from 0
WordGroup(words, i) ==
    Join(" ", SubSeq(words, i + 1,
                     IF i + ChunkSize < Len(words) THEN i + ChunkSize ELSE Len(words)))

Event(data) == "data: " \o data \o "\n\n"
DoneEvent == Event("[DONE]")
ErrorEvent(text) == Event("[ERROR]" \o text)
SourcesEvent(sources) == Event("[SOURCES]" \o ReprSources(sources))

\* lines 146-166: the history read by conversation_id alone, up to the call
\* of generate_response
StreamBegin(user, request) ==
    /\ Ready
    /\ ch' = [Requested(ch.db, "send_message_stream", user, request) EXCEPT
                 !.pc = "generating",
                 !.history_list =
                     IF request.conversation_id # ""
                     THEN HistoryList(MessagesOf(ch.db, request.conversation_id))
                     ELSE <<>>,
                 !.generated = 1,
                 !.reply = [NoReply EXCEPT !.status = 200],
                 !.touched = IF request.conversation_id # ""
                             THEN {Access("read", ch.db, request.conversation_id)}
                             ELSE {}]
    /\ UNCHANGED searchVars
    /\ HarnessUnchangedBut("ch")

\* lines 166-174
StreamGenerated ==
    /\ ch.pc = "generating"
    /\ ch.endpoint = "send_message_stream"
    /\ \E answer \in ChatAnswers(ch.request.include_sources) :
         ch' = [ch EXCEPT
                   !.pc = "words",
                   !.response = [response |-> answer.response, sources |-> answer.sources],
                   !.words = SplitLong(answer.response),
                   !.i = 0]
    /\ UNCHANGED searchVars
    /\ HarnessUnchangedBut("ch")

\* lines 176-179: one turn of the loop
StreamYieldChunk ==
    /\ ch.pc = "words"
    /\ ch.i < Len(ch.words)
    /\ ch' = [ch EXCEPT !.events = Append(@, Event(WordGroup(ch.words, ch.i))),
                        !.i = @ + ChunkSize]
    /\ UNCHANGED searchVars
    /\ HarnessUnchangedBut("ch")

\* lines 182-183
StreamYieldSources ==
    /\ ch.pc = "words"
    /\ ch.i >= Len(ch.words)
    /\ ch.response.sources # <<>>
    /\ ch' = [ch EXCEPT !.pc = "tail",
                        !.events = Append(@, SourcesEvent(ch.response.sources))]
    /\ UNCHANGED searchVars
    /\ HarnessUnchangedBut("ch")

\* line 185, and the generator returning
StreamYieldDone ==
    /\ \/ ch.pc = "tail"
       \/ ch.pc = "words" /\ ch.i >= Len(ch.words) /\ ch.response.sources = <<>>
    /\ ch' = [ch EXCEPT !.pc = "done", !.events = Append(@, DoneEvent)]
    /\ UNCHANGED searchVars
    /\ HarnessUnchangedBut("ch")

\* lines 187-189: generate_response raised
StreamRaises ==
    /\ ch.pc = "generating"
    /\ ch.endpoint = "send_message_stream"
    /\ ch' = [ch EXCEPT !.pc = "done", !.events = Append(@, ErrorEvent(LlmException))]
    /\ UNCHANGED searchVars
    /\ HarnessUnchangedBut("ch")

InitChat ==
    /\ InitRequests({})
    /\ HarnessIdleBut("ch")
    /\ ch = [Requested(EmptyDb, "", "", NoRequest) EXCEPT !.pc = "idle"]

NextChat ==
    \/ \E user \in ChatUsers, request \in ChatRequests :
         \/ SendMessageNotFound(user, request)
         \/ SendMessageBegin(user, request)
         \/ StreamBegin(user, request)
    \/ SendMessageAnswered
    \/ SendMessageFails
    \/ \E user \in ChatUsers, conversation_id \in ConversationIdsAsked :
         \/ GetConversationNotFound(user, conversation_id)
         \/ GetConversation(user, conversation_id)
         \/ DeleteConversationNotFound(user, conversation_id)
         \/ DeleteConversation(user, conversation_id)
         \/ UploadDocumentFails(user, conversation_id)
         \/ UploadDocument(user, conversation_id)
         \/ UploadDocumentRefused(user, conversation_id)
    \/ StreamGenerated
    \/ StreamYieldChunk
    \/ StreamYieldSources
    \/ StreamYieldDone
    \/ StreamRaises

SpecChat == InitChat /\ [][NextChat]_vars

\* ---- send_message_stream on its own, over a database that holds a
\* conversation of u1 ----
StreamDb ==
    [EmptyDb EXCEPT
        !.convs = {ConversationRow(ConvId(1), "u1", "Is cheque bounce a crime?")},
        !.msgs = <<MessageRow(ConvId(1), "user", "Is cheque bounce a crime?"),
                   MessageRow(ConvId(1), "assistant", "Yes, under Section 138.")>>,
        !.next_id = 2]

InitStream ==
    /\ InitRequests({})
    /\ HarnessIdleBut("ch")
    /\ ch = [Requested(StreamDb, "", "", NoRequest) EXCEPT !.pc = "idle"]

\* the generator resumed by the server that sends its events
StreamStep ==
    \/ StreamGenerated
    \/ StreamYieldChunk
    \/ StreamYieldSources
    \/ StreamYieldDone
    \/ StreamRaises

NextStream ==
    \/ \E user \in ChatUsers, request \in ChatRequests : StreamBegin(user, request)
    \/ StreamStep

\* the server iterates the generator of a StreamingResponse until it returns
SpecStream == InitStream /\ [][NextStream]_vars /\ WF_vars(StreamStep)

(***************************************************************************)
(* _parse_search_result on its own                                         *)
(***************************************************************************)
\* link targets: with the numeric /doc/<digits>/ segment (at the start, or
\* later in the link), and without it
Hrefs == {"/doc/123/", "x/doc/45/6", "/doc//", "/docfragment/9/", ""}

\* the snippet container: absent, present and empty, present with text
Snippets ==
    {[has |-> FALSE, text |-> ""], [has |-> TRUE, text |-> ""],
     [has |-> TRUE, text |-> " appeal allowed "]}

CourtParts == {"", "Supreme Court of India", "Delhi High Court", "high court"}
DateParts == {"", " on 12/03/2020", " 1-2-20"}
YearParts == {"", " (2020)", " (20)"}

\* the metadata block: absent, or present with every combination of a court,
\* a date and a year that match or miss their patterns
Metas ==
    {[has |-> FALSE, text |-> ""]}
    \cup {[has |-> TRUE, text |-> c \o d \o y] :
             c \in CourtParts, d \in DateParts, y \in YearParts}

ParseFragments ==
    {[hasAnchor |-> a, anchorText |-> t, href |-> h,
      hasSnippet |-> sn.has, snippetText |-> sn.text,
      hasMeta |-> m.has, metaText |-> m.text, raises |-> x] :
        a \in BOOLEAN, t \in {" Ram v State ", ""}, h \in Hrefs,
        sn \in Snippets, m \in Metas, x \in BOOLEAN}

InitParse ==
    /\ InitRequests({})
    /\ HarnessIdleBut("pr")
    /\ pr \in {[pc |-> "input", div |-> d] : d \in ParseFragments}

\* result = self._parse_search_result(div)
ParseOnce ==
    /\ pr.pc = "input"
    /\ pr' = [pc |-> "done", div |-> pr.div, out |-> ParseSearchResult(pr.div)]
    /\ UNCHANGED searchVars
    /\ HarnessUnchangedBut("pr")

NextParse == ParseOnce

SpecParse == InitParse /\ [][NextParse]_vars

(***************************************************************************)
(* Properties of search_cases and find_similar_cases (under Spec)          *)
(***************************************************************************)
IsSearch(r) == call[r].op = "search_cases"
IsSimilar(r) == call[r].op = "find_similar_cases"

GotPage(r) == resp[r].kind = "response" /\ resp[r].status = 200
GetRaised(r) == resp[r].kind = "raise"
GotErrorStatus(r) == resp[r].kind = "response" /\ resp[r].status # 200

Parseable(div) == div.hasAnchor /\ ~div.raises

AllParseable(divs) == \A i \in DOMAIN divs : Parseable(divs[i])

\* the records of all fragments of a page, enhanced, ranked, then cut to limit
RankAllThenTruncate(divs, topics, query, limit) ==
    Take(RankByRelevance(EnhanceWithTopics(ParseLoop(divs).value, topics, FALSE).value,
                         query),
         limit)

\* C1: for every page of parseable fragments and every limit >= 0, search_cases
\* returns the first `limit` items of the ranking of ALL parsed fragments
\* (truncation after ranking, never before).
C1_TruncationAfterRanking ==
    \A r \in Reqs :
        (/\ pc[r] = "done" /\ IsSearch(r) /\ GotPage(r)
         /\ AllParseable(resp[r].divs) /\ ~call[r].topicsIsNone)
        => ret[r] = RankAllThenTruncate(resp[r].divs, call[r].topics,
                                        call[r].query, call[r].limit)

SameScore(x, y) == x.relevance2 = y.relevance2

\* the elements of xs whose score is v, in the order of xs
WithScore(xs, v) == SelectSeq(xs, LAMBDA x : x.relevance2 = v)

Scores(xs) == {xs[i].relevance2 : i \in DOMAIN xs}

NonIncreasing(xs) == \A i \in 1..(Len(xs) - 1) : xs[i].relevance2 >= xs[i + 1].relevance2

\* C2: the output of _rank_by_relevance has non-increasing scores, and results
\* of equal score keep the relative order they had in the input (stable sort).
\* At pc = "return", results[r] is the scored input list in its input order
\* and ranked[r] the list sorted() built from it.
C2_RankedOrderStable ==
    \A r \in Reqs :
        pc[r] = "return"
        => /\ NonIncreasing(ranked[r])
           /\ \A v \in Scores(results[r]) : WithScore(ranked[r], v) = WithScore(results[r], v)

\* C2 witness: a ranking that moved a result forward past two distinct results
\* of equal score, which kept their input order
C2_Witness ==
    \E r \in Reqs :
        /\ pc[r] = "return"
        /\ Len(ranked[r]) = 3
        /\ ranked[r][1] = results[r][3]
        /\ ranked[r][2] = results[r][1]
        /\ ranked[r][3] = results[r][2]
        /\ SameScore(ranked[r][2], ranked[r][3])
        /\ ranked[r][2] # ranked[r][3]

\* the score the claim states, doubled: each part written out from the claim
C3_TermPart2(result, query) ==
    2 * Cardinality({t \in Elements(Split(Lower(query))) :
                        Contains(Lower(result.title \o " " \o result.summary), t)})

C3_CourtPart2(result) == IF Contains(result.court, "Supreme Court") THEN 3 ELSE 0

C3_RecencyPart2(result) ==
    IF IsDigitStr(result.year) /\ ToInt(result.year) >= 2020 THEN 2
    ELSE IF IsDigitStr(result.year) /\ ToInt(result.year) >= 2015
            /\ ToInt(result.year) < 2020 THEN 1
    ELSE 0

C3_ClaimedScore2(result, query) ==
    4 * result.topic_matches + C3_TermPart2(result, query)
        + C3_CourtPart2(result) + C3_RecencyPart2(result)

IdentityFields == {"id", "title", "url", "summary", "court", "date", "year"}
WrittenFields == {"relevance2", "topic_matches", "outcome"}

\* now is the dict was after some writes: same identity fields, and no key
\* added other than the written ones
SameButWritten(was, now) ==
    /\ \A k \in IdentityFields : k \in DOMAIN now /\ now[k] = was[k]
    /\ DOMAIN now \subseteq (DOMAIN was \cup WrittenFields)

\* C4: across enhance -> rank (and outcome extraction) the fields id, title,
\* url, summary, court, date, year of every result stay as extracted; only
\* relevance, topic_matches and outcome are ever written.  The dicts of the
\* sorted list and of the returned list are the dicts of the result list.
C4_IdentityFieldsUnchanged ==
    \A r \in Reqs :
        /\ Len(results[r]) = Len(extracted[r])
        /\ \A i \in DOMAIN results[r] : SameButWritten(extracted[r][i], results[r][i])
        /\ \A i \in DOMAIN ranked[r] : ranked[r][i] \in Elements(results[r])
        /\ \A i \in DOMAIN ret[r] : ret[r][i] \in Elements(results[r])

\* C4 witness: a search returned a result whose topic_matches and relevance
\* were written after extraction
C4_Witness ==
    \E r \in Reqs :
        /\ pc[r] = "done" /\ IsSearch(r) /\ Len(ret[r]) = 2
        /\ ret[r][1].topic_matches > 0 /\ ret[r][1].relevance2 > 0
        /\ ret[r][1] \notin Elements(extracted[r])

\* a step downstream of search_cases failed: the GET raised, the status was
\* not a success, or the enhancement raised (topics None, some result)
SearchStepFailed(r) ==
    \/ GetRaised(r)
    \/ GotErrorStatus(r)
    \/ (GotPage(r) /\ call[r].topicsIsNone /\ extracted[r] # <<>>)

\* C5: search_cases never raises to its caller; for every outcome of the fetch,
\* parse, enhancement and ranking steps it ends by returning a sequence, which
\* is empty whenever a downstream step failed.
C5_SearchNeverRaises ==
    \A r \in Reqs :
        IsSearch(r)
        => /\ outcome[r] # "raised"
           /\ pc[r] = "done" => outcome[r] = "returned"
           /\ (pc[r] = "done" /\ SearchStepFailed(r)) => ret[r] = <<>>

\* C5 witness: the enhancement raised on a non-empty result list and the call
\* returned the empty list
C5_Witness ==
    \E r \in Reqs :
        /\ pc[r] = "done" /\ IsSearch(r) /\ GotPage(r)
        /\ call[r].topicsIsNone /\ Len(extracted[r]) = 2
        /\ outcome[r] = "returned" /\ ret[r] = <<>>

\* C6: when the search endpoint answers with a non-success status, the search
\* returns the empty sequence without raising and the failure is logged
\* exactly once for that call.
C6_ErrorStatusLoggedOnce ==
    \A r \in Reqs :
        (pc[r] = "done" /\ GotErrorStatus(r))
        => /\ outcome[r] = "returned"
           /\ ret[r] = <<>>
           /\ Len(FailureLogs(logs[r])) = 1

\* C6 witness: a search_cases call answered with status 500 has ended
C6_Witness ==
    \E r \in Reqs :
        /\ pc[r] = "done" /\ IsSearch(r) /\ GotErrorStatus(r) /\ resp[r].status = 500
        /\ FailureLogs(logs[r]) = <<"WARNING: Indian Kanoon search failed">>

Outcomes == {"Plaintiff", "Defendant", "Settled", "Unknown"}

\* now is was with an outcome added
WithOutcomeOnly(was, now) ==
    /\ "outcome" \in DOMAIN now /\ now.outcome \in Outcomes
    /\ DOMAIN now = DOMAIN was \cup {"outcome"}
    /\ \A k \in DOMAIN was : now[k] = was[k]

\* C7: find_similar_cases never raises and returns the empty sequence on any
\* downstream failure; on success every returned result carries an outcome in
\* {Plaintiff, Defendant, Settled, Unknown} and the results are in the order
\* the source returned them.
C7_SimilarCasesContract ==
    \A r \in Reqs :
        IsSimilar(r)
        => /\ outcome[r] # "raised"
           /\ pc[r] = "done" => outcome[r] = "returned"
           /\ (pc[r] = "done" /\ (GetRaised(r) \/ GotErrorStatus(r))) => ret[r] = <<>>
           /\ (pc[r] = "done" /\ GotPage(r))
              => /\ Len(ret[r]) = Len(extracted[r])
                 /\ \A i \in DOMAIN ret[r] : WithOutcomeOnly(extracted[r][i], ret[r][i])

\* C7 witness: find_similar_cases returned two results with different outcomes,
\* in page order
C7_Witness ==
    \E r \in Reqs :
        /\ pc[r] = "done" /\ IsSimilar(r) /\ GotPage(r)
        /\ Len(ret[r]) = 2
        /\ ret[r][1].outcome = "Plaintiff" /\ ret[r][2].outcome = "Defendant"

(***************************************************************************)
(* Properties of _extract_outcome (under SpecOutcome)                      *)
(***************************************************************************)
C8_HasAny(text, w1, w2, w3) ==
    Contains(text, w1) \/ Contains(text, w2) \/ Contains(text, w3)

\* the classification the claim states for a lower-cased summary
C8_Claimed(low) ==
    IF C8_HasAny(low, "dismissed", "rejected", "no merit") THEN "Defendant"
    ELSE IF C8_HasAny(low, "allowed", "granted", "favor of plaintiff") THEN "Plaintiff"
    ELSE IF C8_HasAny(low, "settled", "compromise", "compromise") THEN "Settled"
    ELSE "Unknown"

\* C8: _extract_outcome returns Defendant if the lowercased summary contains
\* any of {dismissed, rejected, no merit}; otherwise Plaintiff if it contains
\* any of {allowed, granted, favor of plaintiff}; otherwise Settled if it
\* contains any of {settled, compromise}; otherwise Unknown: the earliest
\* matching category wins.
C8_OutcomeClassification ==
    oc.pc = "done" => oc.outcome = C8_Claimed(Lower(oc.summary))

\* C8 witness: a summary with keywords of all three categories, written in
\* mixed case, was classified by the earliest category
C8_Witness ==
    /\ oc.pc = "done"
    /\ oc.summary = "allowedSettledDismissed"
    /\ oc.outcome = "Defendant"

(***************************************************************************)
(* Properties of _clean_query (under SpecClean)                            *)
(***************************************************************************)
\* C9: _clean_query never raises and is idempotent:
\* _clean_query(_clean_query(x)) == _clean_query(x) for every string x.
C9_CleanQueryIdempotent ==
    cq.pc = "twice" => cq.twice = cq.once

\* C9 witness: a query that cleaning changed (a special character between
\* two words) was cleaned a second time
C9_Witness ==
    /\ cq.pc = "twice"
    /\ cq.input = "a-Z"
    /\ cq.once = "a Z"

HasDoubleSpace(s) == \E i \in 1..(Len(s) - 1) : IsSpace(Char(s, i)) /\ IsSpace(Char(s, i + 1))

\* C10: the result of _clean_query contains no character outside the
\* alphanumeric/whitespace class, no run of two or more whitespace characters,
\* no leading or trailing whitespace, and is empty when the input is empty.
C10_CleanQueryShape ==
    cq.pc \in {"once", "twice"}
    => /\ \A i \in 1..Len(cq.once) : IsAlnum(Char(cq.once, i)) \/ IsSpace(Char(cq.once, i))
       /\ ~HasDoubleSpace(cq.once)
       /\ cq.once = Strip(cq.once)
       /\ cq.input = "" => cq.once = ""

\* the records of the fragments of divs that have a title anchor and parse
\* without exception, in the order of divs
RecordsOfParseable(divs) ==
    [i \in DOMAIN SelectSeq(divs, Parseable) |-> ExtractFields(SelectSeq(divs, Parseable)[i])]

\* C11: for every sequence of result fragments, the records the search produces
\* are exactly those of the fragments that have a title anchor and parse
\* without exception, in the fragments' order: a fragment without anchor or one
\* whose parsing throws contributes no record and does not stop the remaining
\* fragments from being processed.
C11_RecordsOfAllParseableFragments ==
    \A r \in Reqs :
        (/\ IsSearch(r) \/ IsSimilar(r)
         /\ GotPage(r) /\ pc[r] \notin {"off", "idle", "await"} /\ call[r].limit >= 1)
        => extracted[r] = RecordsOfParseable(resp[r].divs)

\* the same statement about the fragments the loop iterates over, the first
\* `limit` of the page
C11_WithinLimit ==
    \A r \in Reqs :
        ((IsSearch(r) \/ IsSimilar(r)) /\ GotPage(r) /\ pc[r] \notin {"off", "idle", "await"})
        => extracted[r] = RecordsOfParseable(Take(resp[r].divs, call[r].limit))

(***************************************************************************)
(* Properties of _parse_search_result (under SpecParse)                    *)
(***************************************************************************)
AllDigits(s, i, n) == \A k \in 0..(n - 1) : IsDigit(At(s, i + k))
AllLower(s, i, n) == \A k \in 0..(n - 1) : IsLowerLetter(At(s, i + k))

\* the link has a /doc/<digits>/ segment somewhere
HasDocSegment(link) ==
    \E i \in 1..Len(link), n \in 1..Len(link) :
        /\ Sub(link, i, i + 4) = "/doc/"
        /\ AllDigits(link, i + 5, n)
        /\ At(link, i + 5 + n) = "/"

\* the text has a capitalised word followed by " Court" or " High Court"
HasCourtPattern(text) ==
    \E i \in 1..Len(text), n \in 1..Len(text) :
        /\ IsUpper(At(text, i))
        /\ AllLower(text, i + 1, n)
        /\ \/ Sub(text, i + n + 1, i + n + 6) = " Court"
           \/ Sub(text, i + n + 1, i + n + 11) = " High Court"

\* the text has d/m/yyyy with one or two digits for d and m and / or - between
HasDatePattern(text) ==
    \E i \in 1..Len(text), a \in {1, 2}, b \in {1, 2} :
        /\ AllDigits(text, i, a)
        /\ IsDateSep(At(text, i + a))
        /\ AllDigits(text, i + a + 1, b)
        /\ IsDateSep(At(text, i + a + b + 1))
        /\ AllDigits(text, i + a + b + 2, 4)

\* the text has (yyyy)
HasYearPattern(text) ==
    \E i \in 1..Len(text) :
        At(text, i) = "(" /\ AllDigits(text, i + 1, 4) /\ At(text, i + 5) = ")"

\* C12: for every fragment that has a title anchor, _parse_search_result
\* produces a record in which each of id, summary, court, date and year is the
\* empty string when its own element or pattern is absent, whatever the other
\* fields matched; a miss never raises and never discards the record, and the
\* fresh record has relevance 0.0.
C12_MissingFieldsAreEmpty ==
    (pr.pc = "done" /\ pr.div.hasAnchor /\ ~pr.div.raises)
    => /\ pr.out.raised = ""
       /\ pr.out.value # None
       /\ ~HasDocSegment(pr.div.href) => pr.out.value.id = ""
       /\ ~pr.div.hasSnippet => pr.out.value.summary = ""
       /\ ~(pr.div.hasMeta /\ HasCourtPattern(pr.div.metaText)) => pr.out.value.court = ""
       /\ ~(pr.div.hasMeta /\ HasDatePattern(pr.div.metaText)) => pr.out.value.date = ""
       /\ ~(pr.div.hasMeta /\ HasYearPattern(pr.div.metaText)) => pr.out.value.year = ""
       /\ pr.out.value.relevance2 = 0

\* C12 witness: a fragment with an anchor whose link has no numeric segment,
\* without snippet, whose metadata has a date but neither court nor year, was
\* parsed into a record: id, summary, court and year empty, the date extracted
C12_Witness ==
    /\ pr.pc = "done"
    /\ pr.div.hasAnchor /\ ~pr.div.raises
    /\ pr.div.href = "/docfragment/9/" /\ ~pr.div.hasSnippet
    /\ pr.div.hasMeta /\ pr.div.metaText = "high court on 12/03/2020 (20)"
    /\ pr.out.value.id = "" /\ pr.out.value.summary = ""
    /\ pr.out.value.court = "" /\ pr.out.value.year = ""
    /\ pr.out.value.date = "12/03/2020"
    /\ pr.out.value.title = "Ram v State"

(***************************************************************************)
(* Properties of get_case_details (under Spec)                             *)
(***************************************************************************)
IsDetail(r) == call[r].op = "get_case_details"

\* the page has some text that is not whitespace
HasContent(page) == \E i \in DOMAIN page : Strip(page[i].text) # ""

\* C13: get_case_details never raises; it returns None when the detail page
\* answers with a non-success status and when the page has no content, and a
\* detail record only when the fetch succeeded and content is present.
C13_DetailAbsentWithoutContent ==
    \A r \in Reqs :
        (pc[r] = "done" /\ IsDetail(r))
        => /\ outcome[r] = "returned"
           /\ GotErrorStatus(r) => detail[r] = None
           /\ (GotPage(r) /\ ~HasContent(resp[r].page)) => detail[r] = None
           /\ detail[r] # None => (GotPage(r) /\ HasContent(resp[r].page))

\* the part of the statement that the code keeps: no exception reaches the
\* caller, None after a transport error or a non-success status, a record
\* after every page with status 200
C13_DetailAbsentOnFailure ==
    \A r \in Reqs :
        (pc[r] = "done" /\ IsDetail(r))
        => /\ outcome[r] = "returned"
           /\ (GotErrorStatus(r) \/ GetRaised(r)) => detail[r] = None
           /\ GotPage(r) => detail[r] # None

(***************************************************************************)
(* Properties of _build_context (under SpecContext and SpecSnippets)       *)
(***************************************************************************)
\* the last line of a continues as the first line of b
Glue(a, b) == SubSeq(a, 1, Len(a) - 1) \o <<a[Len(a)] \o b[1]>> \o Tail(b)

\* the lines of a text: what stands between its line breaks
RECURSIVE LinesOf(_)
LinesOf(s) ==
    IF Len(s) = 0 THEN <<"">>
    ELSE IF Len(s) = 1 THEN (IF s = "\n" THEN <<"", "">> ELSE <<s>>)
    ELSE Glue(LinesOf(SubSeq(s, 1, Len(s) \div 2)),
              LinesOf(SubSeq(s, Len(s) \div 2 + 1, Len(s))))

StartsWith(line, prefix) == Sub(line, 1, Len(prefix)) = prefix

IsEntry(line) == StartsWith(line, "- ")

ActsHeading == "Relevant Bare Act Sections:"
CasesHeading == "Relevant Case Laws:"
DocsHeading == "Additional Context:"

\* the lines that are the heading h
HeadingAt(lines, h) == {i \in DOMAIN lines : lines[i] = h}

\* how many entry lines follow one another from line i on
RECURSIVE EntryRun(_, _)
EntryRun(lines, i) ==
    IF i \in DOMAIN lines /\ IsEntry(lines[i]) THEN 1 + EntryRun(lines, i + 1) ELSE 0

EntriesFrom(lines, i) == SubSeq(lines, i + 1, i + EntryRun(lines, i + 1))

\* the entries under heading h: none when the heading is not there
BlockEntries(lines, h) ==
    IF HeadingAt(lines, h) = {} THEN <<>> ELSE EntriesFrom(lines, MinOf(HeadingAt(lines, h)))

Min2(a, b) == IF a < b THEN a ELSE b

\* the entries are the first `cap` items, one line each, in the items' order;
\* an item is recognised in a line by its texts (texts is the set of fields)
LeadingItems(entries, items, cap, texts) ==
    /\ Len(entries) = Min2(Len(items), cap)
    /\ \A i \in DOMAIN entries : \A f \in texts : Contains(entries[i], items[i][f])

C14_Caps(lines, acts, cases, docs) ==
    /\ LeadingItems(BlockEntries(lines, ActsHeading), acts, 3, {"act_name", "section", "text"})
    /\ LeadingItems(BlockEntries(lines, CasesHeading), cases, 3, {"title", "year", "summary"})
    /\ LeadingItems(BlockEntries(lines, DocsHeading), docs, 2, {"page_content"})
    /\ Cardinality({i \in DOMAIN lines : IsEntry(lines[i])})
         = Min2(Len(acts), 3) + Min2(Len(cases), 3) + Min2(Len(docs), 2)

\* C14: for input lists of any length the context holds at most 3 statute
\* entries, at most 3 case-law entries and at most 2 vector-snippet entries,
\* and the entries of each category are exactly the leading items of its
\* input list, in input order.
C14_ContextCapsAndOrder ==
    bc.pc = "done"
    => C14_Caps(LinesOf(bc.context), bc.bare_acts, bc.case_laws, bc.vector_docs)

\* C14 witness: lists longer than their caps (4 statutes in descending order,
\* 4 cases, 3 documents) were built into a context with 3, 3 and 2 entries
C14_Witness ==
    /\ bc.pc = "done"
    /\ Len(bc.bare_acts) = 4 /\ bc.bare_acts[1] = ActNo(4)
    /\ Len(bc.case_laws) = 4 /\ Len(bc.vector_docs) = 3
    /\ Len(BlockEntries(LinesOf(bc.context), ActsHeading)) = 3
    /\ Len(BlockEntries(LinesOf(bc.context), CasesHeading)) = 3
    /\ Len(BlockEntries(LinesOf(bc.context), DocsHeading)) = 2
    /\ Contains(bc.context, "Act D") /\ ~Contains(bc.context, "Act A")

Present(items) == IF items = <<>> THEN 0 ELSE 1

BlankLines(lines) == {i \in DOMAIN lines : lines[i] = ""}

C15_Omitted(lines, items, heading) ==
    items = <<>> => (HeadingAt(lines, heading) = {} /\ BlockEntries(lines, heading) = <<>>)

\* the only blank lines are those between two blocks that are present
C15_NoStraySeparator(lines, blocks) ==
    Cardinality(BlankLines(lines)) = (IF blocks = 0 THEN 0 ELSE blocks - 1)

\* C15: a category whose input list is empty contributes nothing to the
\* output: neither its heading nor any entry nor a separator line; with all
\* three inputs empty the output is the empty string.
C15_EmptyCategoryContributesNothing ==
    bc.pc = "done"
    => /\ C15_Omitted(LinesOf(bc.context), bc.bare_acts, ActsHeading)
       /\ C15_Omitted(LinesOf(bc.context), bc.case_laws, CasesHeading)
       /\ C15_Omitted(LinesOf(bc.context), bc.vector_docs, DocsHeading)
       /\ bc.context # ""
          => C15_NoStraySeparator(LinesOf(bc.context),
                 Present(bc.bare_acts) + Present(bc.case_laws) + Present(bc.vector_docs))
       /\ (bc.bare_acts = <<>> /\ bc.case_laws = <<>> /\ bc.vector_docs = <<>>)
          => bc.context = ""

\* what the code keeps of it: no heading and no entry of an empty category,
\* and the empty string when all three lists are empty
C15_NoHeadingNoEntry ==
    bc.pc = "done"
    => /\ C15_Omitted(LinesOf(bc.context), bc.bare_acts, ActsHeading)
       /\ C15_Omitted(LinesOf(bc.context), bc.case_laws, CasesHeading)
       /\ C15_Omitted(LinesOf(bc.context), bc.vector_docs, DocsHeading)
       /\ (bc.bare_acts = <<>> /\ bc.case_laws = <<>> /\ bc.vector_docs = <<>>)
          => bc.context = ""

\* the heading of a present block stands once, that of an absent one never
C16_HeadingIff(lines, items, heading) ==
    Cardinality(HeadingAt(lines, heading)) = Present(items)

\* block y follows block x after the entries of x and exactly one blank line
C16_Follows(lines, x, y) ==
    /\ MinOf(HeadingAt(lines, y)) = MinOf(HeadingAt(lines, x)) + EntryRun(lines, MinOf(HeadingAt(lines, x)) + 1) + 2
    /\ lines[MinOf(HeadingAt(lines, y)) - 1] = ""
    /\ EntryRun(lines, MinOf(HeadingAt(lines, x)) + 1) >= 1

\* the output ends with the entries of block x
C16_Last(lines, x) ==
    Len(lines) = MinOf(HeadingAt(lines, x)) + EntryRun(lines, MinOf(HeadingAt(lines, x)) + 1)

C16_Blocks(lines, a, c, d) ==
    /\ (a = 1 /\ c = 1) => C16_Follows(lines, ActsHeading, CasesHeading)
    /\ (c = 1 /\ d = 1) => C16_Follows(lines, CasesHeading, DocsHeading)
    /\ (a = 1 /\ c = 0 /\ d = 1) => C16_Follows(lines, ActsHeading, DocsHeading)
    /\ d = 1 => C16_Last(lines, DocsHeading)
    /\ (c = 1 /\ d = 0) => C16_Last(lines, CasesHeading)
    /\ (a = 1 /\ c = 0 /\ d = 0) => C16_Last(lines, ActsHeading)

\* C16: in the output of _build_context the statute block precedes the
\* case-law block, which precedes the vector-snippet block; entries inside a
\* block keep input order; every two consecutive blocks that are present are
\* separated by exactly one blank line, for every combination of present and
\* absent categories.
C16_BlockOrderAndSeparation ==
    bc.pc = "done"
    => /\ C16_HeadingIff(LinesOf(bc.context), bc.bare_acts, ActsHeading)
       /\ C16_HeadingIff(LinesOf(bc.context), bc.case_laws, CasesHeading)
       /\ C16_HeadingIff(LinesOf(bc.context), bc.vector_docs, DocsHeading)
       /\ C16_Blocks(LinesOf(bc.context), Present(bc.bare_acts), Present(bc.case_laws),
                     Present(bc.vector_docs))
       /\ \A i \in DOMAIN BlockEntries(LinesOf(bc.context), ActsHeading) :
              Contains(BlockEntries(LinesOf(bc.context), ActsHeading)[i], bc.bare_acts[i].text)
       /\ \A i \in DOMAIN BlockEntries(LinesOf(bc.context), CasesHeading) :
              Contains(BlockEntries(LinesOf(bc.context), CasesHeading)[i], bc.case_laws[i].title)
       /\ \A i \in DOMAIN BlockEntries(LinesOf(bc.context), DocsHeading) :
              Contains(BlockEntries(LinesOf(bc.context), DocsHeading)[i],
                       bc.vector_docs[i].page_content)

\* C16 witness: statutes and vector documents present, case laws absent: the
\* document block follows the two statute entries after one blank line
C16_Witness ==
    /\ bc.pc = "done"
    /\ bc.bare_acts = <<ActNo(2), ActNo(1)>> /\ bc.case_laws = <<>>
    /\ bc.vector_docs = <<DocOther, DocShort>>
    /\ LinesOf(bc.context)
         = <<ActsHeading, "- Act B, Section 2: provision b", "- Act A, Section 1: provision a",
             "", DocsHeading, "- Another note...", "- A short note...">>

\* the text of an entry line after its "- "
EntryBody(entry) == Sub(entry, 3, Len(entry))

\* the first min(200, length) characters, and the indicator only on a snippet
\* that was longer than 200 characters
C17_Snippet(body, content) ==
    /\ Take(body, Min2(200, Len(content))) = Take(content, 200)
    /\ Len(content) > 200 => body = Take(content, 200) \o "..."
    /\ Len(content) <= 200 => body = content

\* C17: every vector snippet placed in the context contributes exactly the
\* first min(200, length) characters of its text, and the truncation indicator
\* is appended to a snippet as the sign that it was truncated to 200
\* characters.
C17_TruncationIndicatorMarksTruncation ==
    bc.pc = "done"
    => \A i \in DOMAIN BlockEntries(LinesOf(bc.context), DocsHeading) :
           C17_Snippet(EntryBody(BlockEntries(LinesOf(bc.context), DocsHeading)[i]),
                       bc.vector_docs[i].page_content)

\* what the code does: the first min(200, length) characters, and the
\* indicator after every snippet, truncated or not
C17_IndicatorAlways ==
    bc.pc = "done"
    => \A i \in DOMAIN BlockEntries(LinesOf(bc.context), DocsHeading) :
           EntryBody(BlockEntries(LinesOf(bc.context), DocsHeading)[i])
             = Take(bc.vector_docs[i].page_content, 200) \o "..."

(***************************************************************************)
(* C19: analyze_document invokes the analyzer exactly once per chunk, in   *)
(* chunk-index order, each invocation receiving only its own chunk; the    *)
(* combined analysis is the per-chunk outputs in that order joined by      *)
(* blank lines, and chunks_analyzed is the number of chunks.               *)
(***************************************************************************)
IsAnalyzing == an.pc # "off"

\* an invocation of the analyzer: a prompt made of an analysis template
IsAnalyzerCall(prompt) == StartsWith(prompt, "Analyze this ")

AnalyzerCalls == {i \in DOMAIN an.prompts : IsAnalyzerCall(an.prompts[i])}

\* the i-th invocation is the template of the document type around chunk i alone
C19_OwnChunk(i) ==
    an.prompts[i] = GetAnalysisPrompt(an.document_type).pre \o an.chunks[i]
                    \o GetAnalysisPrompt(an.document_type).post

C19_OncePerChunkInOrder ==
    /\ Cardinality(AnalyzerCalls) <= Len(an.chunks)
    /\ AnalyzerCalls = 1 .. Cardinality(AnalyzerCalls)
    /\ \A i \in AnalyzerCalls : C19_OwnChunk(i)
    /\ Len(an.prompts) > Cardinality(AnalyzerCalls) =>
          Cardinality(AnalyzerCalls) = Len(an.chunks)

C19_Returned ==
    /\ Cardinality(AnalyzerCalls) = Len(an.chunks)
    /\ an.result.analysis = Join("\n\n", SubSeq(an.answers, 1, Len(an.chunks)))
    /\ an.result.metadata.chunks_analyzed = Len(an.chunks)

\* C19: once per chunk, in order, own chunk only; outputs joined by blank lines
C19_AnalyzerOncePerChunk ==
    IsAnalyzing =>
        /\ C19_OncePerChunkInOrder
        /\ an.outcome = "returned" => C19_Returned

C19_Witness ==
    /\ IsAnalyzing
    /\ an.outcome = "returned"
    /\ Len(an.chunks) = 3
    /\ an.chunks[1] # an.chunks[2]
    /\ an.chunks[2] = an.chunks[3]
    /\ an.answers[1] # an.answers[2]

(***************************************************************************)
(* C20: _enhance_with_topics sets each result's topic_matches to the       *)
(* number of supplied topics occurring, case-insensitively as substrings,  *)
(* in the title and summary; same results, same order, 0 for no topics.    *)
(***************************************************************************)
\* the number of topics, counted with repetitions, that occur in text
RECURSIVE C20_Count(_, _)
C20_Count(text, topics) ==
    IF topics = <<>> THEN 0
    ELSE (IF Contains(text, Lower(Head(topics))) THEN 1 ELSE 0)
         + C20_Count(text, Tail(topics))

\* the enhancement of request r has run and returned
Enhanced(r) ==
    /\ IsSearch(r)
    /\ pc[r] \in {"rank", "return", "done"}
    /\ outcome[r] # "raised"
    /\ GotPage(r)
    /\ ~call[r].topicsIsNone

\* now is the dict was, with topic_matches stored and nothing else touched
C20_OnlyCountStored(was, now) ==
    /\ DOMAIN now = DOMAIN was \cup {"topic_matches"}
    /\ \A k \in DOMAIN was \ {"topic_matches"} : now[k] = was[k]

C20_SameResults(r) ==
    /\ Len(results[r]) = Len(extracted[r])
    /\ pc[r] = "rank" =>
          \A i \in DOMAIN results[r] : C20_OnlyCountStored(extracted[r][i], results[r][i])

\* the text the topics are looked up in: title, one space, summary
C20_SpacedText(result) == Lower(result.title \o " " \o result.summary)

\* the title immediately followed by the summary
C20_PlainText(result) == Lower(result.title \o result.summary)

\* C20 (as amended): topic_matches is the number of supplied topics that
\* occur, case-insensitively as substrings, in the title and the summary joined
\* by one space; the results are the same ones in the same order; the count is
\* 0 for an empty topic list
C20_TopicMatchesInSpacedText ==
    \A r \in Reqs :
        Enhanced(r) =>
            /\ C20_SameResults(r)
            /\ \A i \in DOMAIN results[r] :
                  /\ "topic_matches" \in DOMAIN results[r][i]
                  /\ results[r][i].topic_matches =
                        C20_Count(C20_SpacedText(extracted[r][i]), call[r].topics)
                  /\ call[r].topics = <<>> => results[r][i].topic_matches = 0

\* C20 witness: the enhancement has just stored different counts on two
\* results, one of them counting a repeated topic twice
C20_Witness ==
    \E r \in Reqs :
        /\ Enhanced(r) /\ pc[r] = "rank"
        /\ Len(call[r].topics) = 3
        /\ Len(results[r]) >= 2
        /\ results[r][1].topic_matches = 3
        /\ results[r][2].topic_matches = 0

\* C20 as stated: topic_matches is the number of supplied topics that occur in
\* the concatenation of the title and the summary
C20_TopicMatchesInConcatenation ==
    \A r \in Reqs :
        Enhanced(r) =>
            /\ C20_SameResults(r)
            /\ \A i \in DOMAIN results[r] :
                  /\ "topic_matches" \in DOMAIN results[r][i]
                  /\ results[r][i].topic_matches =
                        C20_Count(C20_PlainText(extracted[r][i]), call[r].topics)
                  /\ call[r].topics = <<>> => results[r][i].topic_matches = 0

(***************************************************************************)
(* C21: for the query "section 138 cheque bounce" and a page of a Supreme  *)
(* Court / 2022 fragment with one topic match and a fragment without       *)
(* court, of 2010, with no topic match, search_cases returns the Supreme   *)
(* Court result first, whichever came first in the page.                   *)
(***************************************************************************)
IsSupreme2022(result) == result.court = "Supreme Court" /\ result.year = "2022"
IsPlain2010(result) == result.court = "" /\ result.year = "2010"

\* the page of request r held the two fragments of the scenario
C21_Scenario(r) ==
    /\ IsSearch(r) /\ GotPage(r) /\ pc[r] = "done"
    /\ call[r].query = "section 138 cheque bounce"
    /\ Len(extracted[r]) = 2
    /\ \E i, j \in 1..2 :
          /\ IsSupreme2022(results[r][i]) /\ results[r][i].topic_matches = 1
          /\ IsPlain2010(results[r][j]) /\ results[r][j].topic_matches = 0

SoloEnhanced(c, found) == EnhanceWithTopics(found, c.topics, c.topicsIsNone)

SoloRanked(c, enhanced) ==
    IF enhanced.raised # "" THEN <<>>
    ELSE Take(RankByRelevance(enhanced.value, c.query), c.limit)

SoloReturn(c, a) ==
    IF c.op = "search_cases"
    THEN SoloRanked(c, SoloEnhanced(c, SearchIndiankanoon(a, c.limit).value))
    ELSE WithOutcomes(SearchIndiankanoon(a, c.limit).value)

\* the records of request r are the ones parsed from its own page
C22_OwnRecords(r) ==
    /\ extracted[r] = SearchIndiankanoon(resp[r], call[r].limit).value
    /\ Len(results[r]) = Len(extracted[r])
    /\ \A i \in DOMAIN results[r] : SameButWritten(extracted[r][i], results[r][i])

C22_AsAlone ==
    \A r \in Reqs :
        /\ pc[r] \notin {"off", "idle", "await"} => C22_OwnRecords(r)
        /\ pc[r] = "done" =>
              /\ outcome[r] = "returned"
              /\ ret[r] = SoloReturn(call[r], resp[r])

\* a step of one request leaves everything of the other as it was
C22_OthersUntouched ==
    \A q \in Reqs :
        pc'[q] = pc[q] =>
            /\ call'[q] = call[q] /\ gets'[q] = gets[q] /\ resp'[q] = resp[q]
            /\ extracted'[q] = extracted[q] /\ results'[q] = results[q]
            /\ ranked'[q] = ranked[q] /\ ret'[q] = ret[q]
            /\ outcome'[q] = outcome[q] /\ logs'[q] = logs[q]

\* C22: each request's result list is private to it, and each request returns
\* exactly what it would return if run alone against the same response
C22_RequestsIsolated == [](C22_AsAlone) /\ [][C22_OthersUntouched]_vars

\* C22 witness: both requests are in flight with records of their own, one
\* about to rank and one about to extract outcomes
C22_Witness ==
    /\ pc["r1"] = "rank" /\ pc["r2"] = "outcomes"
    /\ Len(results["r1"]) = 2 /\ Len(results["r2"]) = 1
    /\ results["r1"][1].title # results["r2"][1].title

(***************************************************************************)
(* C23: every search_cases / find_similar_cases call issues exactly one    *)
(* GET to the search endpoint, with the normalized query and with the      *)
(* jurisdiction parameter iff a jurisdiction was supplied; a failed GET is *)
(* not repeated and the call returns an empty result set.                  *)
(***************************************************************************)
\* request r was given a jurisdiction
JurisdictionSupplied(r) == IsSimilar(r) /\ call[r].jurisdiction # ""

\* the GET of request r, once issued
C23_OneGet(r) ==
    /\ Len(gets[r]) = 1
    /\ "formInput" \in DOMAIN gets[r][1]
    /\ gets[r][1].formInput = CleanQuery(call[r].query)
    /\ "jurisdictions" \in DOMAIN gets[r][1] <=> JurisdictionSupplied(r)
    /\ JurisdictionSupplied(r) => gets[r][1].jurisdictions = call[r].jurisdiction

\* C23: one GET per call, normalized query, jurisdiction iff supplied; after a
\* failed GET no other GET and an empty result
C23_OneGetNoRetry ==
    \A r \in Reqs :
        (IsSearch(r) \/ IsSimilar(r)) =>
            /\ C23_OneGet(r)
            /\ (pc[r] = "done" /\ (GetRaised(r) \/ GotErrorStatus(r))) =>
                  /\ outcome[r] = "returned"
                  /\ ret[r] = <<>>

\* C23 witness: a find_similar_cases call with a jurisdiction whose GET
\* raised has ended with its one GET and no result
C23_Witness ==
    \E r \in Reqs :
        /\ JurisdictionSupplied(r) /\ pc[r] = "done" /\ GetRaised(r)
        /\ Len(gets[r]) = 1
        /\ gets[r][1].jurisdictions = "delhi"
        /\ ret[r] = <<>>

(***************************************************************************)
(* C24: a single shared HTTP client is acquired once at startup, no        *)
(* request creates or closes a client, and the client is closed when the   *)
(* process shuts down.                                                     *)
(***************************************************************************)
OpenClients == {i \in DOMAIN proc.clients : proc.clients[i].state = "open"}

\* C24: one client once the process runs, none left open when it has stopped
C24_ClientScopedToProcess ==
    /\ proc.phase \in {"running", "stopped"} => Len(proc.clients) = 1
    /\ proc.phase = "stopped" => OpenClients = {}

\* the part of C24 about requests: while the process serves requests no client
\* is created and none is closed
C24_RequestsLeaveClientsAlone ==
    proc.phase = "running" =>
        /\ Len(proc.clients) = 2
        /\ OpenClients = DOMAIN proc.clients

(***************************************************************************)
(* C25: in generate_response, if a single sub-source (statute provider,    *)
(* case-law search, vector store) fails, the request is not aborted: a     *)
(* context is assembled from the sub-sources that succeeded and a response *)
(* is generated from it.                                                   *)
(***************************************************************************)
IsGenerating == gr.pc # "off"

\* the LLM raised: the one failure that is not a failure of a sub-source
LlmFailed == gr.outcome = "raised" /\ gr.failed = {}

\* a context of what the sub-sources that succeeded returned was built and the
\* LLM was asked with it
C25_PartialContextUsed ==
    /\ gr.context = BuildContext(gr.bare_acts, gr.case_laws, gr.vector_docs)
    /\ Len(gr.prompts) = 2
    /\ gr.prompts[2].context = gr.context

\* C25: a request in which one sub-source failed (and the LLM did not) ends
\* with a response generated from the partial context
C25_PartialContextOnFailure ==
    (IsGenerating /\ gr.pc = "done" /\ Cardinality(gr.failed) = 1 /\ ~LlmFailed) =>
        /\ gr.outcome = "returned"
        /\ gr.result # None
        /\ C25_PartialContextUsed

\* the part of C25 that holds: a failed case-law search alone does not abort
C25_CaseLawFailureTolerated ==
    (IsGenerating /\ gr.pc \in {"awaitResponse", "done"} /\ gr.failed = {"case_law"}) =>
        /\ C25_PartialContextUsed
        /\ gr.case_laws = <<>>
        /\ gr.outcome = "returned" => gr.result.metadata.case_laws_found = 0

(***************************************************************************)
(* C26: _rank_by_relevance returns a permutation of its input and is       *)
(* idempotent for a fixed query: ranking the ranked list again gives the   *)
(* same order and the same relevance values.                               *)
(***************************************************************************)
\* ys holds the elements of xs, each as often as xs does
IsPermutationOf(ys, xs) ==
    /\ Len(ys) = Len(xs)
    /\ \E p \in [DOMAIN ys -> DOMAIN xs] :
          /\ \A i, j \in DOMAIN ys : p[i] = p[j] => i = j
          /\ \A i \in DOMAIN ys : ys[i] = xs[p[i]]

\* now is the result was, but for its relevance
SameButRelevance(was, now) ==
    /\ DOMAIN now = DOMAIN was \cup {"relevance2"}
    /\ \A k \in DOMAIN was \ {"relevance2"} : now[k] = was[k]

\* C26: permutation of the input, and the same list when ranked again
C26_RankPermutationIdempotent ==
    /\ rk.pc \in {"once", "twice"} =>
          /\ IsPermutationOf(rk.once, rk.scored)
          /\ Len(rk.scored) = Len(rk.input)
          /\ \A i \in DOMAIN rk.input : SameButRelevance(rk.input[i], rk.scored[i])
    /\ rk.pc = "twice" => rk.twice = rk.once

\* C26 witness: three results, one holding a relevance from an earlier
\* ranking that differs from its score, ranked into another order and ranked
\* again
C26_Witness ==
    /\ rk.pc = "twice"
    /\ Len(rk.once) = 3
    /\ rk.once # rk.scored
    /\ rk.twice = rk.once
    /\ \E i \in DOMAIN rk.input :
          /\ rk.input[i].relevance2 = 7
          /\ rk.scored[i].relevance2 # 7
    /\ rk.once[1].relevance2 = rk.once[2].relevance2

(***************************************************************************)
(* C27: when generating the answer fails inside send_message, the stored   *)
(* conversations and messages are as they were before the request.         *)
(***************************************************************************)
\* send_message answered 500 after generate_response raised
GenerationFailedInSend ==
    /\ ch.endpoint = "send_message"
    /\ ch.pc = "done"
    /\ ch.generated = 1
    /\ ch.reply.status = 500

\* C27: no conversation and no user message of the failed request is stored
C27_FailedSendLeavesNoTrace ==
    GenerationFailedInSend =>
        /\ ch.db.convs = ch.before.convs
        /\ ch.db.msgs = ch.before.msgs

(***************************************************************************)
(* C28: send_message with the id of a conversation the current user does   *)
(* not own answers 404 'Conversation not found', stores no message and     *)
(* does not call generate_response.                                        *)
(***************************************************************************)
NotOwnedInSend ==
    /\ ch.endpoint = "send_message"
    /\ ch.pc = "done"
    /\ ch.request.conversation_id # ""
    /\ OwnedConversations(ch.before, ch.request.conversation_id, ch.user) = {}

\* C28: 404 with the detail of get_conversation and delete_conversation
C28_NotOwnedIs404 ==
    NotOwnedInSend =>
        /\ ch.reply.status = 404
        /\ ch.reply.detail = "Conversation not found"
        /\ ch.db.msgs = ch.before.msgs
        /\ ch.generated = 0

(***************************************************************************)
(* C29: whatever endpoint serves the request, the messages of a stored     *)
(* conversation are read or written only for the user it belongs to.       *)
(***************************************************************************)
\* C29: every conversation whose messages the request touched is the
\* current user's
C29_MessagesOnlyOfOwnConversations ==
    ch.pc # "off" => \A a \in ch.touched : a.owner \in {"", ch.user}

(***************************************************************************)
(* C30: a stream of send_message_stream ends with exactly one terminal     *)
(* event, [DONE] or [ERROR], and nothing follows it; on success the words  *)
(* of the response go out in their order in groups of at most 5, and       *)
(* [SOURCES], when there are sources, after the last group and before      *)
(* [DONE].                                                                 *)
(***************************************************************************)
IsTerminalEvent(e) == e = DoneEvent \/ StartsWith(e, "data: [ERROR]")
IsSourcesEvent(e) == StartsWith(e, "data: [SOURCES]")
IsWordEvent(e) == ~IsTerminalEvent(e) /\ ~IsSourcesEvent(e)

\* the words a client reads in a word event: what stands between "data: "
\* and the two newlines
WordsOfEvent(e) == Split(SubSeq(e, Len("data: ") + 1, Len(e) - 2))

RECURSIVE WordsOfEvents(_)
WordsOfEvents(es) ==
    IF es = <<>> THEN <<>>
    ELSE IF IsWordEvent(es[1]) THEN WordsOfEvent(es[1]) \o WordsOfEvents(Tail(es))
    ELSE WordsOfEvents(Tail(es))

Streaming == ch.pc # "off" /\ ch.endpoint = "send_message_stream"

\* the events sent so far are well formed
StreamWellFormed ==
    /\ \A k \in 1..(Len(ch.events) - 1) : ~IsTerminalEvent(ch.events[k])
    /\ \A k \in DOMAIN ch.events :
          IsWordEvent(ch.events[k]) =>
              /\ Len(WordsOfEvent(ch.events[k])) \in 1..ChunkSize
              /\ \A j \in 1..(k - 1) : IsWordEvent(ch.events[j])
    /\ WordsOfEvents(ch.events) = SubSeq(ch.words, 1, Len(WordsOfEvents(ch.events)))
    /\ \A k \in DOMAIN ch.events :
          IsSourcesEvent(ch.events[k]) =>
              /\ ch.response.sources # <<>>
              /\ WordsOfEvents(ch.events) = ch.words
              /\ \A j \in DOMAIN ch.events : IsSourcesEvent(ch.events[j]) => j = k

\* the stream is over: its last event is the terminal one, and a [DONE]
\* comes after every word and after the sources
StreamClosed ==
    /\ ch.pc = "done"
    /\ ch.events # <<>>
    /\ IsTerminalEvent(ch.events[Len(ch.events)])
    /\ ch.events[Len(ch.events)] = DoneEvent =>
          /\ WordsOfEvents(ch.events) = SplitLong(ch.response.response)
          /\ ch.response.sources # <<>> =>
                /\ Len(ch.events) >= 2
                /\ IsSourcesEvent(ch.events[Len(ch.events) - 1])

\* C30: well formed all along, closed by one terminal event in the end
C30_StreamEndsWithOneTerminal ==
    /\ [](Streaming => StreamWellFormed)
    /\ [](Streaming /\ ch.pc = "done" => StreamClosed)
    /\ (Streaming ~> (Streaming /\ StreamClosed))

\* C30 witness: a stream of a request with sources that sent three word
\* groups or more, the last one shorter than 5 words, then the sources,
\* then [DONE]
C30_Witness ==
    /\ Streaming
    /\ StreamClosed
    /\ ch.events[Len(ch.events)] = DoneEvent
    /\ Len(ch.events) >= 5
    /\ IsSourcesEvent(ch.events[Len(ch.events) - 1])
    /\ Len(WordsOfEvent(ch.events[Len(ch.events) - 2])) < ChunkSize
    /\ ch.history_list # <<>>

====
